---- MODULE Spec2Model ----
(***************************************************************************)
(* Controller (Electron main process) and Sync Bridge (preload script) of  *)
(* cuiguo-light-worker.                                                    *)
(*                                                                         *)
(* Source: src/src/main/main.ts (the second, current copy of the file,     *)
(* lines 372-1051), src/src/main/client.ts, src/src/preload/preload.ts.    *)
(*                                                                         *)
(* JavaScript runs every handler to its next await without interleaving.   *)
(* One action of this module is one such run-to-completion segment: from   *)
(* the arrival of an IPC message, a timer or an I/O completion up to the   *)
(* next await on real I/O.  An await on an already settled promise (a      *)
(* synchronous throw inside an async function) resumes in a microtask,     *)
(* before any other message is handled, and so stays inside the action.    *)
(***************************************************************************)
EXTENDS Integers, Sequences, FiniteSets, TLC

\* Provider names used as inputs.
Names == {"alpha", "beta"}

\* Number of registry requests (add, delete, initialize) issued in one run.
MaxRequests == 2

\* A JavaScript undefined (an absent property).
NoVal == "undefined"

\* An absent object-valued property.
Absent == [absent |-> TRUE]

(***************************************************************************)
(* ServerConfig (src/unnamed/part_001, types.ts): command?, url?, type?    *)
(***************************************************************************)
ServerConfigs ==
    [type : {NoVal, "local", "http", "sse"},
     command : {NoVal, "tool-alpha"},
     url : {NoVal, "http://localhost:9999"}]

\* Configs offered to add-provider: a config of each shape that client
\* selection distinguishes.
AddConfigs ==
    { [type |-> NoVal,   command |-> NoVal,        url |-> NoVal],
      [type |-> NoVal,   command |-> NoVal,        url |-> "http://localhost:9999"],
      [type |-> "local", command |-> "tool-alpha", url |-> NoVal],
      [type |-> "http",  command |-> NoVal,        url |-> NoVal] }

\* client.ts:124
serverType(config) ==
    IF config.type # NoVal THEN config.type
    ELSE IF config.url # NoVal THEN "http" ELSE "local"

\* initializeClient without the checks of client.ts:129-131, 144-146 and 184:
\* a client is constructed for every config.
initializeClientUnvalidated(config) ==
    IF config.type = "http" \/ config.type = "sse" \/ config.url # NoVal
    THEN [variant |-> "http", error |-> NoVal]
    ELSE [variant |-> "local", error |-> NoVal]

\* client.ts:120-185, the part of initializeClient that runs before its first
\* await: the client variant it constructs, or the error it throws.
initializeClient(config) ==
    IF serverType(config) = "http" \/ serverType(config) = "sse" \/ config.url # NoVal
    THEN IF config.url = NoVal
         THEN [variant |-> "error", error |-> "must have a 'url' property"]
         ELSE [variant |-> "http", error |-> NoVal]
    ELSE IF serverType(config) = "local" \/ config.command # NoVal
    THEN IF config.command = NoVal
         THEN [variant |-> "error", error |-> "must have a 'command' property"]
         ELSE [variant |-> "local", error |-> NoVal]
    ELSE [variant |-> "error", error |-> "must have either 'url' or 'command' property"]

\* cleanServerConfig deleting the url with the type: what is persisted has
\* lost what the kind is inferred from.
cleanServerConfigDropsUrl(config) == [config EXCEPT !.type = NoVal, !.url = NoVal]

\* main.ts:446-451
cleanServerConfig(config) == [config EXCEPT !.type = NoVal]

(***************************************************************************)
(* Capability table and identifiers (main.ts:615-665)                      *)
(***************************************************************************)
capabilitySchemas ==
    [tools |-> {"list", "call"},
     prompts |-> {"list", "get"},
     resources |-> {"list", "read", "templates/list"}]

CapabilityTypes == DOMAIN capabilitySchemas

\* Provider names for the identifier scheme: names that contain the
\* separators of the scheme, methods and actions of the table, and parts of
\* the names of the control channels.
IdNameSeq ==
    << "alpha", "alpha-tools", "alpha-tools/list", "tools/list", "list", "list-clients",
       "x-resources/templates", "initialize-mcp" >>

IdNames == { IdNameSeq[i] : i \in DOMAIN IdNameSeq }

\* main.ts:790, 795, 800, 813, 897: the channels of the control interface
ControlChannels ==
    { "list-clients", "get-mcp-config", "initialize-mcp-clients", "initialize-mcp-server",
      "delete-mcp-server" }

\* An identifier that is the method alone: the providers share it.
eventNameWithoutName(name, method) == method

\* main.ts:623
eventName(name, method) == name \o "-" \o method

\* the methods registerIpcHandlers registers, in the order of main.ts:653-658
MethodSeq ==
    << "tools/list", "tools/call", "prompts/list", "prompts/get",
       "resources/list", "resources/read", "resources/templates/list" >>

\* the identifiers of the providers, by name and position in MethodSeq
EventNames ==
    [n \in Names \cup IdNames |-> [k \in DOMAIN MethodSeq |-> eventName(n, MethodSeq[k])]]

ProviderIds(name) == { EventNames[name][k] : k \in DOMAIN MethodSeq }

Channels == UNION { ProviderIds(n) : n \in Names }

\* ipcMain's table of provider channels.  The handler of a channel is the
\* closure of main.ts:628, which is determined by the client it captured:
\* the table maps a channel to that client, or to NoClient when the channel
\* has no handler.
NoClient == 0
NoHandlers == [c \in Channels |-> NoClient]
Bound(h) == { c \in Channels : h[c] # NoClient }

\* main.ts:626  ipcMain.removeHandler
removeHandler(h, channel) == [h EXCEPT ![channel] = NoClient]

\* What the table holds for a channel on which ipcMain.handle has thrown
\* "Attempted to register a second handler".
DuplicateRegistration == -1

\* main.ts:628  ipcMain.handle: the handler forwards to the captured client.
\* Electron's ipcMain.handle throws when the channel has a handler.
ipcMainHandle(h, channel, client) ==
    [h EXCEPT ![channel] = IF h[channel] # NoClient THEN DuplicateRegistration ELSE client]

\* registerHandler without the removeHandler of main.ts:625-627
registerHandlerKeepsPrior(h, name, k, client) ==
    ipcMainHandle(h, EventNames[name][k], client)

\* main.ts:622-632, for the k-th method
registerHandler(h, name, k, client) ==
    ipcMainHandle(removeHandler(h, EventNames[name][k]), EventNames[name][k], client)

RECURSIVE registerAll(_, _, _, _)
registerAll(h, name, client, k) ==
    IF k > Len(MethodSeq) THEN h
    ELSE registerAll(registerHandler(h, name, k, client), name, client, k + 1)

\* main.ts:615-665, the bindings registerIpcHandlers leaves behind
registerIpcHandlers(h, name, client) == registerAll(h, name, client, 1)

\* The params a page passes to a method of window.mcpServers: none
\* (undefined), or an object.
RequestParams == { NoVal, "{name, arguments}" }

\* client.ts:187-201: the request object has the method and, when params is
\* truthy, the params (NoVal: the request has no params property); it is
\* handed to client.request
manageRequests(client, method, params) ==
    [client |-> client, request |-> [method |-> method, params |-> params]]

\* registerIpcHandlers with one handler for all identifiers of a name, which
\* forwards every request as tools/list.
handlerOfTableSharesMethod(h, name, k, params) ==
    manageRequests(h[EventNames[name][k]], MethodSeq[1], params)

\* main.ts:622-630: what the handler bound to the k-th identifier of name does
\* with params: the closure holds the method of the identifier and the client
\* it was registered for
handlerOf(h, name, k, params) ==
    manageRequests(h[EventNames[name][k]], MethodSeq[k], params)

\* main.ts:474, 734, 838: client.getServerCapabilities(), what the server
\* of a provider declared when it was initialized.  The server of alpha
\* declares tools only, the server of beta all three capabilities.
\* registerIpcHandlers receives this value and reads it for a log line only
\* (main.ts:660-662).
getServerCapabilities ==
    [n \in Names |-> IF n = "alpha" THEN {"tools"} ELSE {"tools", "prompts", "resources"}]

\* main.ts:653-658: feature[type][action] = registerHandler(`${type}/${action}`).
\* These three properties of a feature object are the same for every feature
\* of a name, so the Registry below stores the other properties only and
\* featureIds gives these.
featureIds(name, type) ==
    [a \in capabilitySchemas[type] |-> eventName(name, type \o "/" \o a)]

FeatureIds == [n \in Names |-> [t \in CapabilityTypes |-> featureIds(n, t)]]

\* main.ts:620, 653-664, the feature object registerIpcHandlers returns
\* (type, url, command and config are filled in by its callers)
featureOf(name) ==
    [name |-> name, type |-> NoVal, url |-> NoVal, command |-> NoVal, config |-> Absent]

\* main.ts:678-683 and 738-743: the feature of a client that bulk or targeted
\* initialization registered
bootstrapFeature(name, variant, cfg) ==
    IF variant = "http"
    THEN [featureOf(name) EXCEPT !.type = "http", !.url = cfg.url]
    ELSE [featureOf(name) EXCEPT !.type = "local"]

\* main.ts:846-855: the feature of a client that add-provider registered
addedFeature(name, variant, cfg) ==
    IF variant = "http"
    THEN [featureOf(name) EXCEPT !.type = "http", !.url = cfg.url, !.config = cfg]
    ELSE [featureOf(name) EXCEPT !.type = "local", !.command = cfg.command, !.config = cfg]

(***************************************************************************)
(* Sequences                                                               *)
(***************************************************************************)
\* Array.prototype.findIndex(f => f.name === name); 0 stands for -1
findIndex(feats, name) ==
    IF \E i \in DOMAIN feats : feats[i].name = name
    THEN CHOOSE i \in DOMAIN feats :
            /\ feats[i].name = name
            /\ \A j \in DOMAIN feats : feats[j].name = name => i <= j
    ELSE 0

\* Array.prototype.splice(i, 1)
splice(s, i) == [k \in 1..(Len(s) - 1) |-> IF k < i THEN s[k] ELSE s[k + 1]]

FeatureNames(feats) == { feats[i].name : i \in DOMAIN feats }

(***************************************************************************)
(* Config Store: the document config.json (main.ts:425-444)                *)
(*   kind "null"  : readConfig returns null (missing file, invalid JSON)   *)
(*   kind "nomcp" : a JSON document without an mcpServers property         *)
(*   kind "ok"    : mcpServers is an object; its entries in key order      *)
(***************************************************************************)
Doc(kind, servers) == [kind |-> kind, mcpServers |-> servers]

Entry(name, cfg) == [name |-> name, cfg |-> cfg]

LocalCfg == [type |-> NoVal, command |-> "tool-alpha", url |-> NoVal]
HttpCfg == [type |-> NoVal, command |-> NoVal, url |-> "http://localhost:9999"]
EmptyCfg == [type |-> NoVal, command |-> NoVal, url |-> NoVal]

\* Documents found on disk at startup.
InitialDocs ==
    { Doc("null", << >>),
      Doc("nomcp", << >>),
      Doc("ok", << >>),
      Doc("ok", << Entry("alpha", LocalCfg), Entry("beta", HttpCfg) >>),
      Doc("ok", << Entry("alpha", EmptyCfg), Entry("beta", HttpCfg) >>) }

ConfiguredNames(doc) == { doc.mcpServers[i].name : i \in DOMAIN doc.mcpServers }

entryIndex(servers, name) ==
    IF \E i \in DOMAIN servers : servers[i].name = name
    THEN CHOOSE i \in DOMAIN servers : servers[i].name = name
    ELSE 0

\* config.mcpServers[name]
configOf(doc, name) == doc.mcpServers[entryIndex(doc.mcpServers, name)].cfg

\* config.mcpServers[name] = cfg: an existing key keeps its place
setEntry(servers, name, cfg) ==
    IF entryIndex(servers, name) # 0
    THEN [servers EXCEPT ![entryIndex(servers, name)] = Entry(name, cfg)]
    ELSE Append(servers, Entry(name, cfg))

\* delete config.mcpServers[name]
deleteEntry(servers, name) ==
    IF entryIndex(servers, name) # 0 THEN splice(servers, entryIndex(servers, name)) ELSE servers

VARIABLES
    ready,        \* app.whenReady has run: the IPC handlers are registered
    features,     \* main.ts:611, the Registry: the array of feature objects
    handlers,     \* ipcMain's provider handlers: identifier -> client it forwards to
    config,       \* the persisted configuration document
    inflight,     \* requests suspended at an await on client initialization
    issued,       \* number of registry requests issued so far
    budget,       \* number of registry requests the UI issues in this run
    notes,        \* 'clients-updated' messages sent to the window, not yet delivered
    completed,    \* what the step just taken returned to its caller, if it returned
    mcpServers,   \* preload.ts: window.mcpServers, the mirror of the Registry
    rebuilds,     \* preload.ts:73-75: calls of updateMcpServersAPI awaiting listClients()
    lastDeleted,  \* history: the name whose successful deletion was the last
                  \* change of the Registry or of the document, when the
                  \* document was written or held no entry of the name
    isInitializing,     \* preload.ts:189
    lastConfigHash,     \* preload.ts:187
    initializedServers, \* preload.ts:188
    backup,       \* localStorage item 'mcp_config_backup' (preload.ts:271)
    sync,         \* the call of getServers that is past preload.ts:214, if any
    returned,     \* what the step of the preload script just taken returned to the page
    exposed,      \* preload.ts:70: the object exposed in the main world at load
    lastSynced    \* history: the configuration read by the last call of
                  \* getServers that returned from its try block

controllerVars == << ready, features, handlers, config, inflight, issued, budget, completed >>

bridgeVars == << mcpServers, rebuilds >>

syncVars == << isInitializing, lastConfigHash, initializedServers, backup, sync, returned, exposed,
              lastSynced >>

vars == << ready, features, handlers, config, inflight, issued, budget, notes, completed,
           mcpServers, rebuilds, lastDeleted,
           isInitializing, lastConfigHash, initializedServers, backup, sync, returned, exposed,
           lastSynced >>


(***************************************************************************)
(* Records of the model                                                    *)
(***************************************************************************)
\* One client initialization of a request: status is "pending" while the race
\* of main.ts:469 (727, 832) is undecided, "fulfilled" or "rejected" after it.
Flow(name, cfg, cl, status) == [name |-> name, cfg |-> cfg, cl |-> cl, status |-> status]

\* A request suspended at an await.  kind is "add" (initialize-mcp-server),
\* "bulk" (bootstrapClientsFromConfig) or "specific" (bootstrapSpecificClients);
\* id is the number of the request (0: the deferred bootstrap of startup);
\* i is the position of the loop of main.ts:710; mutated records whether the
\* request has changed the Registry so far.
Op(id, kind, entries, i, mutated) ==
    [id |-> id, kind |-> kind, entries |-> entries, i |-> i, mutated |-> mutated]

\* The identity of the client object that request id constructs for the k-th
\* of its entries.
ClientId(id, k) == (id + 1) * Cardinality(Names) + k

NoReport == [success |-> 0, failed |-> 0]

\* What a request did and returned.  mutated: it changed the Registry; sent: it
\* sent 'clients-updated' after its last change of the Registry; persist: what
\* became of its write to the document ("saved", "save-failed", "unreadable",
\* "none"); report: the counts initClient logs at main.ts:491.
Outcome(kind, name, success, message, mutated, sent, persist, report) ==
    [kind |-> kind, name |-> name, success |-> success, message |-> message,
     mutated |-> mutated, sent |-> sent, persist |-> persist, report |-> report]

\* The step just taken returned nothing.
Nothing == Outcome("none", NoVal, TRUE, NoVal, FALSE, FALSE, "none", NoReport)

TimeoutError == "timed out after 30 seconds"
TransportError == "connect failed"
ConfigErrors ==
    { "must have a 'url' property", "must have a 'command' property",
      "must have either 'url' or 'command' property" }
FailedToInitialize(error) == "Failed to initialize server: " \o error

\* preload.ts:187-189 and the state of a freshly loaded window
NoSync == [pc |-> "idle"]
NoHash == << >>
\* localStorage item mcp_config_backup (preload.ts:271, 294): absent, or the
\* servers of the configuration that was being synchronized
NoBackup == [stored |-> FALSE, servers |-> << >>]
Backup(servers) == [stored |-> TRUE, servers |-> servers]
NotReturned == [kind |-> "none"]
\* window.mcpServers of the main world before exposeAPIs has run
NotExposed == [loaded |-> FALSE, api |-> << >>]
NotSynced == [defined |-> FALSE, servers |-> << >>]
SyncInit ==
    /\ isInitializing = FALSE
    /\ lastConfigHash = NoHash
    /\ initializedServers = {}
    /\ backup = NoBackup
    /\ sync = NoSync
    /\ returned = NotReturned
    /\ exposed = NotExposed
    /\ lastSynced = NotSynced

\* lastSynced after a step of the preload script
TrackSynced ==
    lastSynced' =
        IF returned'.kind = "getServers" /\ returned'.how \in {"synced", "unchanged"}
        THEN [defined |-> TRUE, servers |-> sync.servers]
        ELSE lastSynced

\* The clients the handlers of name forward to (main.ts:628-630: each handler
\* closes over the client it was registered for).  A client is registered
\* after it has connected, and nothing in main.ts or client.ts closes a
\* client, so these clients are live.
liveClients(h, name) == { h[c] : c \in ProviderIds(name) } \ {NoClient}

\* lastDeleted after a step of the controller
TrackDeleted ==
    lastDeleted' =
        IF /\ completed'.kind = "delete" /\ completed'.success
           /\ completed'.persist \in {"saved", "none"}
        THEN completed'.name
        ELSE IF features' # features \/ config' # config THEN NoVal
        ELSE lastDeleted

\* What every step of the controller leaves alone: the state of the preload
\* script, which lives in another process, and the number of requests to come.
Controller == TrackDeleted /\ UNCHANGED << bridgeVars, syncVars, budget >>

Init ==
    /\ ready = FALSE
    /\ features = << >>
    /\ handlers = NoHandlers
    /\ config \in InitialDocs
    /\ inflight = {}
    /\ issued = 0
    /\ budget = MaxRequests
    /\ notes = 0
    /\ completed = Nothing
    /\ mcpServers = << >>
    /\ rebuilds = << >>
    /\ lastDeleted = NoVal
    /\ SyncInit

(***************************************************************************)
(* initialize-mcp-server (add-provider), main.ts:813-894                   *)
(***************************************************************************)
\* The check of main.ts:818-819 left out: no name is taken to exist.
alreadyExistsUnchecked(feats, serverName) == FALSE

\* main.ts:818-819
alreadyExists(feats, serverName) == findIndex(feats, serverName) # 0

\* main.ts:813-835: from the arrival of the request to the await of the race.
\* A config that initializeClient rejects makes the race reject at once.
InitializeMcpServer(serverName, serverConfig) ==
    /\ ready
    /\ issued < budget
    /\ issued' = issued + 1
    /\ IF alreadyExists(features, serverName)
       THEN /\ completed' = Outcome("add", serverName, FALSE, "Server already exists",
                                    FALSE, FALSE, "none", NoReport)
            /\ UNCHANGED inflight
       ELSE IF initializeClient(serverConfig).variant = "error"
       THEN /\ completed' = Outcome("add", serverName, FALSE,
                                    FailedToInitialize(initializeClient(serverConfig).error),
                                    FALSE, FALSE, "none", NoReport)
            /\ UNCHANGED inflight
       ELSE /\ inflight' = inflight \cup
                 { Op(issued + 1, "add",
                      << Flow(serverName, serverConfig, ClientId(issued + 1, 1), "pending") >>,
                      1, FALSE) }
            /\ completed' = Nothing
    /\ UNCHANGED << ready, features, handlers, config, notes >>
    /\ Controller

\* main.ts:857
pushFeature(feats, feature) == Append(feats, feature)

\* main.ts:861, 688, 753, 922: webContents.send('clients-updated')
sendClientsUpdated(n) == n + 1

\* main.ts:864-873: what the handler does to the document, given whether
\* writeFileSync succeeds.  "throws" is the TypeError of main.ts:866 on a
\* document without mcpServers.
persistAdded(doc, serverName, serverConfig, writable) ==
    IF doc.kind = "null" THEN [doc |-> doc, persist |-> "unreadable"]
    ELSE IF doc.kind = "nomcp" THEN [doc |-> doc, persist |-> "throws"]
    ELSE IF writable
    THEN [doc |-> Doc("ok", setEntry(doc.mcpServers, serverName, cleanServerConfig(serverConfig))),
          persist |-> "saved"]
    ELSE [doc |-> doc, persist |-> "save-failed"]

\* main.ts:837-879: the race was won by initializeClient
AddConnected(op) ==
    LET f == op.entries[1]
        variant == initializeClient(f.cfg).variant
    IN
    /\ op \in inflight /\ op.kind = "add"
    /\ inflight' = inflight \ {op}
    /\ handlers' = registerIpcHandlers(handlers, f.name, f.cl)
    /\ features' = pushFeature(features, addedFeature(f.name, variant, f.cfg))
    /\ notes' = sendClientsUpdated(notes)
    /\ \E writable \in BOOLEAN :
         LET p == persistAdded(config, f.name, f.cfg, writable) IN
         /\ config' = p.doc
         /\ completed' =
              IF p.persist = "throws"
              THEN Outcome("add", f.name, FALSE,
                           FailedToInitialize("Cannot set properties of undefined"),
                           TRUE, TRUE, "none", NoReport)
              ELSE Outcome("add", f.name, TRUE, "initialized successfully",
                           TRUE, TRUE, p.persist, NoReport)
    /\ UNCHANGED << ready, issued >>
    /\ Controller

\* The handler with main.ts:842-857 moved before the await of main.ts:832: the
\* feature is in the Registry when the race is lost.
AddFailedAfterPush(op, error) ==
    /\ op \in inflight /\ op.kind = "add"
    /\ inflight' = inflight \ {op}
    /\ features' = pushFeature(features,
                               addedFeature(op.entries[1].name,
                                            initializeClient(op.entries[1].cfg).variant,
                                            op.entries[1].cfg))
    /\ completed' = Outcome("add", op.entries[1].name, FALSE, FailedToInitialize(error),
                            TRUE, FALSE, "none", NoReport)
    /\ UNCHANGED << ready, handlers, config, issued, notes >>
    /\ Controller

\* main.ts:880-885: the race was lost (connect failed, or the timer fired first)
AddFailed(op, error) ==
    /\ op \in inflight /\ op.kind = "add"
    /\ inflight' = inflight \ {op}
    /\ completed' = Outcome("add", op.entries[1].name, FALSE, FailedToInitialize(error),
                            FALSE, FALSE, "none", NoReport)
    /\ UNCHANGED << ready, features, handlers, config, issued, notes >>
    /\ Controller

(***************************************************************************)
(* delete-mcp-server (delete-provider), main.ts:897-934                    *)
(***************************************************************************)
\* The check of main.ts:902-903 left out: every name is taken to be registered.
notFoundUnchecked(feats, serverName) == FALSE

\* main.ts:902-903
notFound(feats, serverName) == findIndex(feats, serverName) = 0

\* main.ts:908
deleteFeature(feats, serverName) == splice(feats, findIndex(feats, serverName))

\* main.ts:908-922: delete-mcp-server leaves the bound identifiers alone
unbindOnDelete(h, serverName) == h

\* main.ts:911-920
persistDeleted(doc, serverName, writable) ==
    IF doc.kind = "null" THEN [doc |-> doc, persist |-> "unreadable"]
    ELSE IF doc.kind = "nomcp" THEN [doc |-> doc, persist |-> "throws"]
    ELSE IF serverName \notin ConfiguredNames(doc) THEN [doc |-> doc, persist |-> "none"]
    ELSE IF writable
    THEN [doc |-> Doc("ok", deleteEntry(doc.mcpServers, serverName)), persist |-> "saved"]
    ELSE [doc |-> doc, persist |-> "save-failed"]

\* The handler without the catch of main.ts:927-933: the TypeError of
\* main.ts:912 on a document without mcpServers rejects the invocation.
DeleteMcpServerUncaught(serverName) ==
    /\ ready
    /\ issued < budget
    /\ issued' = issued + 1
    /\ IF notFound(features, serverName)
       THEN /\ completed' = Outcome("delete", serverName, FALSE, "Server not found",
                                    FALSE, FALSE, "none", NoReport)
            /\ UNCHANGED << features, handlers, config, notes >>
       ELSE /\ features' = deleteFeature(features, serverName)
            /\ handlers' = unbindOnDelete(handlers, serverName)
            /\ \E writable \in BOOLEAN :
                 LET p == persistDeleted(config, serverName, writable) IN
                 /\ config' = p.doc
                 /\ notes' = IF p.persist = "throws" THEN notes ELSE sendClientsUpdated(notes)
                 /\ completed' =
                      IF p.persist = "throws"
                      THEN [Outcome("delete", serverName, FALSE, NoVal,
                                    TRUE, FALSE, "none", NoReport) EXCEPT !.kind = "rejected"]
                      ELSE Outcome("delete", serverName, TRUE, "deleted successfully",
                                   TRUE, TRUE, p.persist, NoReport)
    /\ UNCHANGED << ready, inflight >>
    /\ Controller

DeleteMcpServer(serverName) ==
    /\ ready
    /\ issued < budget
    /\ issued' = issued + 1
    /\ IF notFound(features, serverName)
       THEN /\ completed' = Outcome("delete", serverName, FALSE, "Server not found",
                                    FALSE, FALSE, "none", NoReport)
            /\ UNCHANGED << features, handlers, config, notes >>
       ELSE /\ features' = deleteFeature(features, serverName)
            /\ handlers' = unbindOnDelete(handlers, serverName)
            /\ \E writable \in BOOLEAN :
                 LET p == persistDeleted(config, serverName, writable) IN
                 /\ config' = p.doc
                 /\ notes' = IF p.persist = "throws" THEN notes ELSE sendClientsUpdated(notes)
                 /\ completed' =
                      IF p.persist = "throws"
                      THEN Outcome("delete", serverName, FALSE,
                                   "Failed to delete server: Cannot read properties of undefined",
                                   TRUE, FALSE, "none", NoReport)
                      ELSE Outcome("delete", serverName, TRUE, "deleted successfully",
                                   TRUE, TRUE, p.persist, NoReport)
    /\ UNCHANGED << ready, inflight >>
    /\ Controller

(***************************************************************************)
(* Bulk initialization: initClient and bootstrapClientsFromConfig,         *)
(* main.ts:453-529 and 667-689                                             *)
(***************************************************************************)
\* main.ts:454-455: the entries initClient initializes
entriesToInit(doc) == IF doc.kind = "ok" THEN doc.mcpServers ELSE << >>

\* main.ts:460-472: one race per entry; an entry whose config initializeClient
\* rejects is rejected at once, every other entry gets a client under construction
startFlows(servers, id) ==
    [k \in DOMAIN servers |->
        IF initializeClient(servers[k].cfg).variant = "error"
        THEN Flow(servers[k].name, servers[k].cfg, 0, "rejected")
        ELSE Flow(servers[k].name, servers[k].cfg, ClientId(id, k), "pending")]

Pending(entries) == { k \in DOMAIN entries : entries[k].status = "pending" }
Rejected(entries) == { k \in DOMAIN entries : entries[k].status = "rejected" }

\* main.ts:485-487: the values of the fulfilled races, in the order of the document
RECURSIVE fulfilledClients(_, _)
fulfilledClients(entries, k) ==
    IF k > Len(entries) THEN << >>
    ELSE IF entries[k].status = "fulfilled"
    THEN << entries[k] >> \o fulfilledClients(entries, k + 1)
    ELSE fulfilledClients(entries, k + 1)

\* Promise.all in the place of Promise.allSettled: one rejection rejects the
\* whole, and no client is kept.
settledClientsAllOrNothing(entries) ==
    IF \E k \in DOMAIN entries : entries[k].status = "rejected" THEN << >>
    ELSE fulfilledClients(entries, 1)

\* main.ts:459-487: Promise.allSettled keeps every fulfilled client
settledClients(entries) == fulfilledClients(entries, 1)

\* main.ts:676-685: features = clients.map(...)
bootstrapFeatures(clients) ==
    [k \in DOMAIN clients |->
        bootstrapFeature(clients[k].name, initializeClient(clients[k].cfg).variant,
                         clients[k].cfg)]

\* main.ts:677: registerIpcHandlers for every client
RECURSIVE registerClients(_, _, _)
registerClients(h, clients, k) ==
    IF k > Len(clients) THEN h
    ELSE registerClients(registerIpcHandlers(h, clients[k].name, clients[k].cl), clients, k + 1)

\* main.ts:489-491
reportOf(entries) ==
    [success |-> Len(settledClients(entries)), failed |-> Cardinality(Rejected(entries))]

\* main.ts:485-510 and 676-688: all races have settled
BulkComplete(entries) ==
    /\ features' = bootstrapFeatures(settledClients(entries))
    /\ handlers' = registerClients(handlers, settledClients(entries), 1)
    /\ notes' = sendClientsUpdated(notes)
    /\ completed' = Outcome("bulk", NoVal, TRUE,
                            IF entries = << >> THEN "NO clients configured"
                            ELSE "All clients attempted",
                            features' # features, TRUE, "none", reportOf(entries))

\* main.ts:453-483 and 667-670: from the call to the await of Promise.allSettled
BootstrapStart(id) ==
    LET entries == startFlows(entriesToInit(config), id) IN
    /\ IF Pending(entries) = {}
       THEN /\ BulkComplete(entries)
            /\ UNCHANGED inflight
       ELSE /\ inflight' = inflight \cup { Op(id, "bulk", entries, 0, FALSE) }
            /\ completed' = Nothing
            /\ UNCHANGED << features, handlers, notes >>
    /\ UNCHANGED config

\* main.ts:759-784: app.whenReady registers the handlers and starts the
\* deferred bulk initialization
WhenReady ==
    /\ ~ready
    /\ ready' = TRUE
    /\ BootstrapStart(0)
    /\ UNCHANGED issued
    /\ Controller

\* main.ts:800-810, initialize-mcp-clients without names
InitializeAllMcpClients ==
    /\ ready
    /\ issued < budget
    /\ issued' = issued + 1
    /\ BootstrapStart(issued + 1)
    /\ UNCHANGED ready
    /\ Controller

\* main.ts:469-481: the race of entry k settles (error is NoVal when
\* initializeClient won it); Promise.allSettled resolves with the last of them
BulkSettle(op, k, error) ==
    LET entries == [op.entries EXCEPT
                      ![k].status = IF error = NoVal THEN "fulfilled" ELSE "rejected"]
    IN
    /\ op \in inflight /\ op.kind = "bulk"
    /\ k \in Pending(op.entries)
    /\ IF Pending(entries) = {}
       THEN /\ inflight' = inflight \ {op}
            /\ BulkComplete(entries)
       ELSE /\ inflight' = (inflight \ {op}) \cup { [op EXCEPT !.entries = entries] }
            /\ completed' = Nothing
            /\ UNCHANGED << features, handlers, notes >>
    /\ UNCHANGED << ready, config, issued >>
    /\ Controller

(***************************************************************************)
(* Targeted initialization: bootstrapSpecificClients, main.ts:692-757      *)
(***************************************************************************)
\* Lists of names offered to initialize-mcp-clients.
NameLists == { << n >> : n \in Names } \cup { << "alpha", "beta" >>, << "alpha", "alpha" >> }

\* main.ts:700: serverNames.filter(name => config.mcpServers[name]), with the
\* config of each name as read at main.ts:693
RECURSIVE serversToInit(_, _, _)
serversToInit(doc, serverNames, k) ==
    IF k > Len(serverNames) THEN << >>
    ELSE IF serverNames[k] \in ConfiguredNames(doc)
    THEN << Flow(serverNames[k], configOf(doc, serverNames[k]), 0, "pending") >>
            \o serversToInit(doc, serverNames, k + 1)
    ELSE serversToInit(doc, serverNames, k + 1)

\* main.ts:714-718
removeOldInstance(feats, serverName) ==
    IF findIndex(feats, serverName) # 0 THEN splice(feats, findIndex(feats, serverName))
    ELSE feats

\* main.ts:710-750: the loop from position k up to its next await: the old
\* instance of each name is removed, and a name whose config initializeClient
\* rejects is skipped (main.ts:747-749).  Returns the Registry and the position
\* at which the loop awaits, or Len(entries) + 1 when it has ended.
RECURSIVE loopUntilAwait(_, _, _)
loopUntilAwait(feats, entries, k) ==
    IF k > Len(entries) THEN [features |-> feats, i |-> k]
    ELSE IF initializeClient(entries[k].cfg).variant = "error"
    THEN loopUntilAwait(removeOldInstance(feats, entries[k].name), entries, k + 1)
    ELSE [features |-> removeOldInstance(feats, entries[k].name), i |-> k]

\* the loop of main.ts:710 of request op continues from position k
SpecificContinue(op, feats, k) ==
    LET r == loopUntilAwait(feats, op.entries, k)
        mutated == op.mutated \/ r.features # features
    IN
    /\ features' = r.features
    /\ IF r.i > Len(op.entries)
       THEN /\ notes' = sendClientsUpdated(notes)
            /\ completed' = Outcome("specific", NoVal, TRUE, "features",
                                    mutated, TRUE, "none", NoReport)
            /\ inflight' = inflight \ {op}
       ELSE /\ inflight' = (inflight \ {op}) \cup
                 { [op EXCEPT !.entries[r.i].cl = ClientId(op.id, r.i), !.i = r.i,
                              !.mutated = mutated] }
            /\ completed' = Nothing
            /\ UNCHANGED notes

\* bootstrapSpecificClients without the return of main.ts:701-704: the loop
\* runs over no names and 'clients-updated' is sent.
bootstrapSpecificClientsNoEarlyReturn(serverNames, id) ==
    LET entries == serversToInit(config, serverNames, 1) IN
    /\ IF config.kind # "ok"
       THEN /\ completed' = Outcome("specific", NoVal, TRUE, "features",
                                    FALSE, FALSE, "none", NoReport)
            /\ UNCHANGED << features, inflight, notes >>
       ELSE SpecificContinue(Op(id, "specific", entries, 0, FALSE), features, 1)
    /\ UNCHANGED << ready, handlers, config >>

\* main.ts:692-730: bootstrapSpecificClients, called for request id, up to its
\* first await
bootstrapSpecificClients(serverNames, id) ==
    LET entries == serversToInit(config, serverNames, 1) IN
    /\ IF config.kind # "ok" \/ entries = << >>
       THEN /\ completed' = Outcome("specific", NoVal, TRUE, "features",
                                    FALSE, FALSE, "none", NoReport)
            /\ UNCHANGED << features, inflight, notes >>
       ELSE SpecificContinue(Op(id, "specific", entries, 0, FALSE), features, 1)
    /\ UNCHANGED << ready, handlers, config >>

\* main.ts:800-804 and 692-730, initialize-mcp-clients with names
InitializeMcpClients(serverNames) ==
    /\ ready
    /\ issued < budget
    /\ issued' = issued + 1
    /\ bootstrapSpecificClients(serverNames, issued + 1)
    /\ Controller

\* main.ts:727-749: the race of the current name settles (error is NoVal when
\* initializeClient won it), and the loop goes on
SpecificSettle(op, error) ==
    LET f == op.entries[op.i]
        feats == IF error = NoVal
                 THEN pushFeature(features,
                                  bootstrapFeature(f.name, initializeClient(f.cfg).variant, f.cfg))
                 ELSE features
    IN
    /\ op \in inflight /\ op.kind = "specific"
    /\ handlers' = IF error = NoVal THEN registerIpcHandlers(handlers, f.name, f.cl)
                   ELSE handlers
    /\ SpecificContinue(op, feats, op.i + 1)
    /\ UNCHANGED << ready, config, issued >>
    /\ Controller

(***************************************************************************)
(* Sync Bridge: the preload script of the main window, preload.ts          *)
(***************************************************************************)
\* main.ts:790-792, list-clients.  The feature objects cross the boundary
\* with their tools, prompts and resources properties (featureIds).
listClients == features

\* preload.ts:85-92, createAPIMethods: each method invokes the channel named
\* by the feature
createAPIMethods(methods) == [key \in DOMAIN methods |-> "invoke " \o methods[key]]

\* preload.ts:126-152: the tools object of an HTTP provider calls its URL
httpTools(url) ==
    [list |-> "POST " \o url \o "/tools/list", call |-> "POST " \o url \o "/tools/call"]

EmptyEntry == [tools |-> Absent, prompts |-> Absent, resources |-> Absent]

\* win.mcpServers[name], created empty when missing (preload.ts:157-159)
entryOrEmpty(m, name) == IF name \in DOMAIN m THEN m[name] ELSE EmptyEntry

\* processClient without the test of preload.ts:116-120: a client whose name
\* is mirrored is processed in an update that is not a full rebuild, too.
processClientWithoutSkip(m, client, fullRebuild) ==
    LET m1 == IF client.type = "http" /\ client.url # NoVal
              THEN (client.name :> [EmptyEntry EXCEPT !.tools = httpTools(client.url)]) @@ m
              ELSE (client.name :>
                      [entryOrEmpty(m, client.name) EXCEPT
                         !.tools = createAPIMethods(FeatureIds[client.name].tools)]) @@ m
        m2 == IF client.type # "http"
              THEN (client.name :>
                      [entryOrEmpty(m1, client.name) EXCEPT
                         !.prompts = createAPIMethods(FeatureIds[client.name].prompts)]) @@ m1
              ELSE m1
    IN IF client.type # "http"
       THEN (client.name :>
               [entryOrEmpty(m2, client.name) EXCEPT
                  !.resources = createAPIMethods(FeatureIds[client.name].resources)]) @@ m2
       ELSE m2

\* preload.ts:104-181: the body of clients.forEach for one client
processClient(m, client, fullRebuild) ==
    IF ~fullRebuild /\ client.name \in DOMAIN m THEN m
    ELSE
      LET m1 == IF client.type = "http" /\ client.url # NoVal
                THEN (client.name :> [EmptyEntry EXCEPT !.tools = httpTools(client.url)]) @@ m
                ELSE (client.name :>
                        [entryOrEmpty(m, client.name) EXCEPT
                           !.tools = createAPIMethods(FeatureIds[client.name].tools)]) @@ m
          m2 == IF client.type # "http"
                THEN (client.name :>
                        [entryOrEmpty(m1, client.name) EXCEPT
                           !.prompts = createAPIMethods(FeatureIds[client.name].prompts)]) @@ m1
                ELSE m1
      IN IF client.type # "http"
         THEN (client.name :>
                 [entryOrEmpty(m2, client.name) EXCEPT
                    !.resources = createAPIMethods(FeatureIds[client.name].resources)]) @@ m2
         ELSE m2

RECURSIVE processClients(_, _, _, _)
processClients(m, clients, fullRebuild, k) ==
    IF k > Len(clients) THEN m
    ELSE processClients(processClient(m, clients[k], fullRebuild), clients, fullRebuild, k + 1)

\* preload.ts:94-181: the mirror after updateMcpServersAPI has processed the
\* clients that listClients() returned
rebuiltMirror(m, clients, fullRebuild) ==
    processClients(IF fullRebuild THEN << >> ELSE m, clients, fullRebuild, 1)

Rebuild(fullRebuild, answered, clients) ==
    [fullRebuild |-> fullRebuild, answered |-> answered, clients |-> clients]

\* preload.ts:317 and 73-75: 'clients-updated' arrives; updateMcpServersAPI()
\* invokes list-clients and awaits the answer
ClientsUpdated ==
    /\ notes > 0
    /\ notes' = notes - 1
    /\ rebuilds' = Append(rebuilds, Rebuild(TRUE, FALSE, << >>))
    /\ UNCHANGED << mcpServers, controllerVars, lastDeleted, syncVars >>

\* main.ts:790-792: the controller answers the oldest list-clients invocation
\* (messages between the two processes keep their order)
ListClients ==
    /\ ready
    /\ \E k \in DOMAIN rebuilds :
         /\ ~rebuilds[k].answered
         /\ \A j \in 1..(k - 1) : rebuilds[j].answered
         /\ rebuilds' = [rebuilds EXCEPT ![k] = Rebuild(rebuilds[k].fullRebuild, TRUE, listClients)]
    /\ UNCHANGED << notes, mcpServers, controllerVars, lastDeleted, syncVars >>

\* preload.ts:76-184: the answer arrives and updateMcpServersAPI runs to its end
UpdateMcpServersAPI ==
    /\ rebuilds # << >>
    /\ rebuilds[1].answered
    /\ mcpServers' = rebuiltMirror(mcpServers, rebuilds[1].clients, rebuilds[1].fullRebuild)
    /\ rebuilds' = Tail(rebuilds)
    /\ UNCHANGED << notes, controllerVars, lastDeleted, syncVars >>

(***************************************************************************)
(* Sync Bridge: getServers (sync), preload.ts:187-310                      *)
(*                                                                         *)
(* The answer of the controller to an invocation and the continuation of   *)
(* getServers that receives it are one action here: the answer only reads  *)
(* the state of the controller and the continuation only the state of the  *)
(* preload script, so every step of either process that could come between *)
(* the two commutes with one of them.                                      *)
(***************************************************************************)
\* main.ts:795-798, get-mcp-config: config ? config.mcpServers : {}
getMcpConfig(doc) ==
    IF doc.kind = "null" THEN [defined |-> TRUE, servers |-> << >>]
    ELSE IF doc.kind = "nomcp" THEN [defined |-> FALSE, servers |-> << >>]
    ELSE [defined |-> TRUE, servers |-> doc.mcpServers]

\* The tokens of the JSON texts of the configs of the model; a token stands
\* for its characters, its code for their contribution to the hash.
TokenCode ==
    ("{" :> 1) @@ ("}" :> 2) @@ ("alpha" :> 3) @@ ("beta" :> 4) @@ ("command" :> 5) @@
    ("url" :> 6) @@ ("type" :> 7) @@ ("tool-alpha" :> 8) @@ ("tool-beta" :> 9) @@
    ("http://localhost:9999" :> 10) @@ ("local" :> 11) @@ ("http" :> 12) @@ ("sse" :> 13)

\* JSON.stringify of one server config: its defined properties
configTokens(cfg) ==
    (IF cfg.command # NoVal THEN << "command", cfg.command >> ELSE << >>)
    \o (IF cfg.url # NoVal THEN << "url", cfg.url >> ELSE << >>)
    \o (IF cfg.type # NoVal THEN << "type", cfg.type >> ELSE << >>)

RECURSIVE entriesTokens(_, _)
entriesTokens(servers, k) ==
    IF k > Len(servers) THEN << >>
    ELSE << servers[k].name, "{" >> \o configTokens(servers[k].cfg) \o << "}" >>
            \o entriesTokens(servers, k + 1)

\* preload.ts:219: JSON.stringify(currentConfig, null, 2)
stringifyConfig(servers) == << "{" >> \o entriesTokens(servers, 1) \o << "}" >>

\* preload.ts:195-196: a = ((a << 5) - a) + code, kept to 32 bits; the 32 bits
\* are held as two halves of 16 bits
hashStep(a, code) ==
    LET step(v) ==
            LET lo == 31 * v[2] + code
                hi == 31 * v[1] + (lo \div 65536)
            IN << hi % 65536, lo % 65536 >>
    IN CHOOSE h \in { step(v) : v \in {a} } : TRUE

RECURSIVE hashReduce(_, _, _)
hashReduce(tokens, k, a) ==
    IF k > Len(tokens) THEN a
    ELSE hashReduce(tokens, k + 1, hashStep(a, TokenCode[tokens[k]]))

\* preload.ts:192-198
calculateConfigHash(tokens) == hashReduce(tokens, 1, << 0, 0 >>)

\* JSON.stringify of a feature object and of a server config, as the
\* sequences of their properties (preload.ts:245)
stringifyFeature(f) ==
    << << "name", f.name >>, << "tools", "{...}" >>, << "prompts", "{...}" >>,
       << "resources", "{...}" >> >>
    \o (IF f.type # NoVal THEN << << "type", f.type >> >> ELSE << >>)
    \o (IF f.url # NoVal THEN << << "url", f.url >> >> ELSE << >>)
    \o (IF f.command # NoVal THEN << << "command", f.command >> >> ELSE << >>)
    \o (IF f.config # Absent THEN << << "config", "{...}" >> >> ELSE << >>)

stringifyServerConfig(cfg) ==
    (IF cfg.command # NoVal THEN << << "command", cfg.command >> >> ELSE << >>)
    \o (IF cfg.url # NoVal THEN << << "url", cfg.url >> >> ELSE << >>)
    \o (IF cfg.type # NoVal THEN << << "type", cfg.type >> >> ELSE << >>)

\* preload.ts:241-247: is the configured server at position k changed?
isChanged(servers, k, existingClients) ==
    \/ findIndex(existingClients, servers[k].name) = 0
    \/ stringifyFeature(existingClients[findIndex(existingClients, servers[k].name)])
          # stringifyServerConfig(servers[k].cfg)

\* preload.ts:237-248
RECURSIVE changedServers(_, _, _)
changedServers(servers, k, existingClients) ==
    IF k > Len(servers) THEN << >>
    ELSE (IF isChanged(servers, k, existingClients) THEN << servers[k].name >> ELSE << >>)
            \o changedServers(servers, k + 1, existingClients)

\* preload.ts:251
deletedServers(servers, existingClients) ==
    { n \in FeatureNames(existingClients) : \A k \in DOMAIN servers : servers[k].name # n }

\* preload.ts:256-264, on the mirror
cleanedMirror(m, deleted) == [n \in (DOMAIN m) \ deleted |-> m[n]]

\* The call of getServers in flight: pc is the await it is suspended at
\* ("config": get-mcp-config, "list": list-clients, "init": the request
\* initialize-mcp-clients is on its way, "wait": the request is being served,
\* "recover": the list-clients of the rebuild of preload.ts:300); id numbers
\* the request it sends.
Sync(pc, id, servers, hash, changed) ==
    [pc |-> pc, id |-> id, servers |-> servers, hash |-> hash, changed |-> changed]

\* What getServers returns: always window.mcpServers (the mirror); how says by
\* which path.
Returned(how, mirror) == [kind |-> "getServers", how |-> how, mirror |-> mirror]

\* getServers with the test of preload.ts:208 inside the try block: the
\* finally of preload.ts:307-309 runs for the call that found the flag set.
GetServersTestInsideTry ==
    /\ ready
    /\ IF isInitializing
       THEN /\ returned' = Returned("busy", mcpServers)
            /\ isInitializing' = FALSE
            /\ UNCHANGED << sync, issued >>
       ELSE /\ issued < budget
            /\ issued' = issued + 1
            /\ isInitializing' = TRUE
            /\ sync' = Sync("config", issued + 1, << >>, NoHash, << >>)
            /\ returned' = NotReturned
    /\ UNCHANGED << ready, features, handlers, config, inflight, budget, completed, notes,
                    bridgeVars, lastDeleted, lastConfigHash, initializedServers, backup,
                    exposed >>
    /\ TrackSynced

\* preload.ts:201-215, the call of getServers
GetServers ==
    /\ ready
    /\ IF isInitializing
       THEN /\ returned' = Returned("busy", mcpServers)
            /\ UNCHANGED << isInitializing, sync, issued >>
       ELSE /\ issued < budget
            /\ issued' = issued + 1
            /\ isInitializing' = TRUE
            /\ sync' = Sync("config", issued + 1, << >>, NoHash, << >>)
            /\ returned' = NotReturned
    /\ UNCHANGED << ready, features, handlers, config, inflight, budget, completed, notes,
                    bridgeVars, lastDeleted, lastConfigHash, initializedServers, backup,
                    exposed >>
    /\ TrackSynced

\* The catch block without the finally of preload.ts:307-309: a flow that
\* fails without a backup leaves the flag set.
RecoverWithoutFinally ==
    IF backup.stored
    THEN /\ sync' = [sync EXCEPT !.pc = "recover"]
         /\ returned' = NotReturned
         /\ UNCHANGED isInitializing
    ELSE /\ sync' = NoSync
         /\ returned' = Returned("failed", mcpServers)
         /\ UNCHANGED isInitializing

\* preload.ts:291-309: the catch block and finally, up to the await of
\* preload.ts:300 when there is a backup
Recover ==
    IF backup.stored
    THEN /\ sync' = [sync EXCEPT !.pc = "recover"]
         /\ returned' = NotReturned
         /\ UNCHANGED isInitializing
    ELSE /\ sync' = NoSync
         /\ returned' = Returned("failed", mcpServers)
         /\ isInitializing' = FALSE

\* preload.ts:218-223: the configuration arrives; its hash is computed
\* (JSON.stringify(undefined) is undefined, and calculateConfigHash throws on
\* it) and list-clients is invoked
SyncConfig ==
    /\ ready
    /\ sync.pc = "config"
    /\ IF getMcpConfig(config).defined
       THEN /\ sync' = [sync EXCEPT !.pc = "list",
                                    !.servers = getMcpConfig(config).servers,
                                    !.hash = calculateConfigHash(
                                                stringifyConfig(getMcpConfig(config).servers))]
            /\ returned' = NotReturned
            /\ UNCHANGED isInitializing
       ELSE Recover
    /\ UNCHANGED << controllerVars, notes, bridgeVars, lastDeleted, lastConfigHash,
                    initializedServers, backup, exposed >>
    /\ TrackSynced

\* SyncList without the assignment of preload.ts:284: a flow that finds no
\* changed server does not keep the hash of the configuration.
SyncListKeepsHash ==
    LET existingClients == listClients
        changed == changedServers(sync.servers, 1, existingClients)
        deleted == deletedServers(sync.servers, existingClients)
    IN
    /\ ready
    /\ sync.pc = "list"
    /\ IF sync.hash = lastConfigHash
       THEN /\ returned' = Returned("unchanged", mcpServers)
            /\ sync' = NoSync
            /\ isInitializing' = FALSE
            /\ UNCHANGED << mcpServers, lastConfigHash, initializedServers, backup >>
       ELSE /\ mcpServers' = cleanedMirror(mcpServers, deleted)
            /\ IF changed # << >>
               THEN /\ backup' = Backup(sync.servers)
                    /\ sync' = [sync EXCEPT !.pc = "init", !.changed = changed]
                    /\ initializedServers' = initializedServers \ deleted
                    /\ returned' = NotReturned
                    /\ UNCHANGED << isInitializing, lastConfigHash >>
               ELSE /\ UNCHANGED lastConfigHash
                    /\ initializedServers' = DOMAIN mcpServers'
                    /\ returned' = Returned("synced", mcpServers')
                    /\ sync' = NoSync
                    /\ isInitializing' = FALSE
                    /\ UNCHANGED backup
    /\ UNCHANGED << controllerVars, notes, rebuilds, lastDeleted, exposed >>
    /\ TrackSynced

\* preload.ts:223-290: the clients arrive; the changed and the deleted
\* servers are computed, up to the invocation of initialize-mcp-clients
SyncList ==
    LET existingClients == listClients
        changed == changedServers(sync.servers, 1, existingClients)
        deleted == deletedServers(sync.servers, existingClients)
    IN
    /\ ready
    /\ sync.pc = "list"
    /\ IF sync.hash = lastConfigHash
       THEN /\ returned' = Returned("unchanged", mcpServers)
            /\ sync' = NoSync
            /\ isInitializing' = FALSE
            /\ UNCHANGED << mcpServers, lastConfigHash, initializedServers, backup >>
       ELSE /\ mcpServers' = cleanedMirror(mcpServers, deleted)
            /\ IF changed # << >>
               THEN /\ backup' = Backup(sync.servers)
                    /\ sync' = [sync EXCEPT !.pc = "init", !.changed = changed]
                    /\ initializedServers' = initializedServers \ deleted
                    /\ returned' = NotReturned
                    /\ UNCHANGED << isInitializing, lastConfigHash >>
               ELSE /\ lastConfigHash' = sync.hash
                    /\ initializedServers' = DOMAIN mcpServers'
                    /\ returned' = Returned("synced", mcpServers')
                    /\ sync' = NoSync
                    /\ isInitializing' = FALSE
                    /\ UNCHANGED backup
    /\ UNCHANGED << controllerVars, notes, rebuilds, lastDeleted, exposed >>
    /\ TrackSynced

\* preload.ts:274 and main.ts:800-804: the request initialize-mcp-clients of
\* getServers arrives at the controller
SyncInitializeClients ==
    /\ ready
    /\ sync.pc = "init"
    /\ bootstrapSpecificClients(sync.changed, sync.id)
    /\ sync' = [sync EXCEPT !.pc = "wait"]
    /\ returned' = NotReturned
    /\ TrackDeleted
    /\ UNCHANGED << issued, budget, bridgeVars, isInitializing, lastConfigHash,
                    initializedServers, backup, exposed >>
    /\ TrackSynced

\* SyncUpdate without the assignment of preload.ts:280: the hash of the
\* configuration that was synchronized is not kept.
SyncUpdateKeepsHash(raises) ==
    /\ ready
    /\ sync.pc = "wait"
    /\ \A op \in inflight : op.id # sync.id
    /\ IF raises
       THEN /\ Recover
            /\ UNCHANGED << mcpServers, lastConfigHash, initializedServers >>
       ELSE /\ mcpServers' = rebuiltMirror(mcpServers, listClients, FALSE)
            /\ UNCHANGED lastConfigHash
            /\ initializedServers' = DOMAIN mcpServers'
            /\ returned' = Returned("synced", mcpServers')
            /\ sync' = NoSync
            /\ isInitializing' = FALSE
    /\ UNCHANGED << controllerVars, notes, rebuilds, lastDeleted, backup, exposed >>
    /\ TrackSynced

\* preload.ts:274-290: the request has been served; updateMcpServersAPI(false)
\* gets the clients and adds the missing entries.  raises: the invocation was
\* rejected instead.
SyncUpdate(raises) ==
    /\ ready
    /\ sync.pc = "wait"
    /\ \A op \in inflight : op.id # sync.id
    /\ IF raises
       THEN /\ Recover
            /\ UNCHANGED << mcpServers, lastConfigHash, initializedServers >>
       ELSE /\ mcpServers' = rebuiltMirror(mcpServers, listClients, FALSE)
            /\ lastConfigHash' = sync.hash
            /\ initializedServers' = DOMAIN mcpServers'
            /\ returned' = Returned("synced", mcpServers')
            /\ sync' = NoSync
            /\ isInitializing' = FALSE
    /\ UNCHANGED << controllerVars, notes, rebuilds, lastDeleted, backup, exposed >>
    /\ TrackSynced

\* SyncRecover without the inner try of preload.ts:298-303: the failure of the
\* rebuild rejects the call of getServers.
SyncRecoverUncaught(raises) ==
    /\ ready
    /\ sync.pc = "recover"
    /\ mcpServers' = IF raises THEN mcpServers ELSE rebuiltMirror(mcpServers, listClients, TRUE)
    /\ returned' = IF raises THEN [kind |-> "rejected"] ELSE Returned("recovered", mcpServers')
    /\ sync' = NoSync
    /\ isInitializing' = FALSE
    /\ UNCHANGED << controllerVars, notes, rebuilds, lastDeleted, lastConfigHash,
                    initializedServers, backup, exposed >>
    /\ TrackSynced

\* preload.ts:296-309: the rebuild of the catch block gets the clients; a
\* failure of it is logged (preload.ts:301-303)
SyncRecover(raises) ==
    /\ ready
    /\ sync.pc = "recover"
    /\ mcpServers' = IF raises THEN mcpServers ELSE rebuiltMirror(mcpServers, listClients, TRUE)
    /\ returned' = Returned(IF raises THEN "failed" ELSE "recovered", mcpServers')
    /\ sync' = NoSync
    /\ isInitializing' = FALSE
    /\ UNCHANGED << controllerVars, notes, rebuilds, lastDeleted, lastConfigHash,
                    initializedServers, backup, exposed >>
    /\ TrackSynced

(***************************************************************************)
(* The controller                                                          *)
(***************************************************************************)
SettleErrors == { TransportError, TimeoutError }

\* The controller alone: the UI is any sequence of requests, and the
\* notifications it is sent stay in the channel.
Next ==
    \/ WhenReady
    \/ \E n \in Names, c \in AddConfigs : InitializeMcpServer(n, c)
    \/ \E op \in inflight : AddConnected(op)
    \/ \E op \in inflight, e \in SettleErrors : AddFailed(op, e)
    \/ \E n \in Names : DeleteMcpServer(n)
    \/ InitializeAllMcpClients
    \/ \E op \in inflight : \E k \in DOMAIN op.entries, e \in SettleErrors \cup {NoVal} :
          BulkSettle(op, k, e)
    \/ \E l \in NameLists : InitializeMcpClients(l)
    \/ \E op \in inflight, e \in SettleErrors \cup {NoVal} : SpecificSettle(op, e)

Spec == Init /\ [][Next]_vars

(***************************************************************************)
(* The controller with the Sync Bridge of one window, for add-provider and *)
(* delete-provider on a readable document.                                 *)
(***************************************************************************)
\* Number of add and delete requests issued in one run of SpecBridge.
MaxBridgeRequests == 3

InitBridge ==
    /\ ready = FALSE
    /\ features = << >>
    /\ handlers = NoHandlers
    /\ config = Doc("ok", << >>)
    /\ inflight = {}
    /\ issued = 0
    /\ budget = MaxBridgeRequests
    /\ notes = 0
    /\ completed = Nothing
    /\ mcpServers = << >>
    /\ rebuilds = << >>
    /\ lastDeleted = NoVal
    /\ SyncInit

NextBridge ==
    \/ WhenReady
    \/ \E n \in Names, c \in AddConfigs : InitializeMcpServer(n, c)
    \/ \E op \in inflight : AddConnected(op)
    \/ \E op \in inflight, e \in SettleErrors : AddFailed(op, e)
    \/ \E n \in Names : DeleteMcpServer(n)
    \/ ClientsUpdated
    \/ ListClients
    \/ UpdateMcpServersAPI

SpecBridge == InitBridge /\ [][NextBridge]_vars

(***************************************************************************)
(* The controller with the Sync Bridge of one window, for getServers on a  *)
(* document that is edited from outside the application.                   *)
(***************************************************************************)
\* Number of calls of getServers that enter the flow, and of edits of
\* config.json, in one run of SpecSync.
MaxSyncRequests == 2

AlphaCfg2 == [type |-> NoVal, command |-> NoVal, url |-> "http://localhost:9999"]

\* The documents config.json is edited to.
SyncDocs ==
    { Doc("ok", << >>),
      Doc("ok", << Entry("alpha", LocalCfg), Entry("beta", HttpCfg) >>),
      Doc("ok", << Entry("alpha", AlphaCfg2), Entry("beta", HttpCfg) >>),
      Doc("nomcp", << >>) }

\* config.json is rewritten by its user
EditConfig ==
    /\ ready
    /\ issued < budget
    /\ issued' = issued + 1
    /\ \E doc \in SyncDocs : doc # config /\ config' = doc
    /\ completed' = Nothing
    /\ returned' = NotReturned
    /\ UNCHANGED << ready, features, handlers, inflight, budget, notes, bridgeVars,
                    lastDeleted, isInitializing, lastConfigHash, initializedServers,
                    backup, sync, exposed >>
    /\ TrackSynced

InitSync ==
    /\ ready = FALSE
    /\ features = << >>
    /\ handlers = NoHandlers
    /\ config = Doc("ok", << Entry("alpha", LocalCfg), Entry("beta", HttpCfg) >>)
    /\ inflight = {}
    /\ issued = 0
    /\ budget = MaxSyncRequests
    /\ notes = 0
    /\ completed = Nothing
    /\ mcpServers = << >>
    /\ rebuilds = << >>
    /\ lastDeleted = NoVal
    /\ SyncInit

NextSync ==
    \/ WhenReady
    \/ \E op \in inflight : \E k \in DOMAIN op.entries, e \in SettleErrors \cup {NoVal} :
          BulkSettle(op, k, e)
    \/ \E op \in inflight, e \in SettleErrors \cup {NoVal} : SpecificSettle(op, e)
    \/ EditConfig
    \/ GetServers
    \/ SyncConfig
    \/ SyncList
    \/ SyncInitializeClients
    \/ \E raises \in BOOLEAN : SyncUpdate(raises)
    \/ \E raises \in BOOLEAN : SyncRecover(raises)
    \/ ClientsUpdated
    \/ ListClients
    \/ UpdateMcpServersAPI

SpecSync == InitSync /\ [][NextSync]_vars

(***************************************************************************)
(* The same, with loads of the window: exposeAPIs and a fresh preload      *)
(* script.                                                                 *)
(***************************************************************************)
\* Number of calls of getServers that enter the flow, and of edits of
\* config.json, in one run of SpecLoad.
MaxLoadRequests == 1

\* preload.ts:42-68: the api object exposeAPIs builds from the clients
exposedAPI(clients) ==
    [n \in FeatureNames(clients) |->
        [tools |-> createAPIMethods(FeatureIds[n].tools),
         prompts |-> createAPIMethods(FeatureIds[n].prompts),
         resources |-> createAPIMethods(FeatureIds[n].resources)]]

\* The window loads or reloads its page (main.ts:541, 601 and the reload roles
\* of main.ts:570-571): the preload script starts with the values of
\* preload.ts:187-189 and an empty isolated world, and exposeAPIs
\* (preload.ts:334, 42-71) exposes the clients of list-clients in the main
\* world.  localStorage is kept.
LoadWindow ==
    /\ ready
    /\ exposed' = [loaded |-> TRUE, api |-> exposedAPI(listClients)]
    /\ mcpServers' = << >>
    /\ rebuilds' = << >>
    /\ isInitializing' = FALSE
    /\ lastConfigHash' = NoHash
    /\ initializedServers' = {}
    /\ sync' = NoSync
    /\ returned' = NotReturned
    /\ lastSynced' = NotSynced
    /\ UNCHANGED << controllerVars, notes, lastDeleted, backup >>

\* What becomes of the HTTP request of a mirrored method: the host is
\* unreachable (fetch rejects), the body of the response is not JSON
\* (response.json() rejects), or the body is decoded.
HttpOutcomes == {"unreachable", "undecodable", "decoded"}

\* the error fetch or response.json() rejects with
httpError(outcome) ==
    IF outcome = "unreachable" THEN "TypeError: fetch failed"
    ELSE IF outcome = "undecodable" THEN "SyntaxError: Unexpected token"
    ELSE NoVal

\* What a call of a mirrored method gives its caller
Result(threw, value) == [threw |-> threw, value |-> value]

\* tools.list that lets the error through, as tools.call does
httpToolsListRethrows(outcome) ==
    IF httpError(outcome) # NoVal
    THEN Result(TRUE, httpError(outcome))
    ELSE Result(FALSE, "response body")

\* preload.ts:127-138: tools.list of an HTTP provider
httpToolsList(outcome) ==
    IF httpError(outcome) # NoVal
    THEN Result(FALSE, [tools |-> << >>])
    ELSE Result(FALSE, "response body")

\* preload.ts:139-152: tools.call of an HTTP provider
httpToolsCall(outcome) ==
    IF httpError(outcome) # NoVal
    THEN Result(TRUE, httpError(outcome))
    ELSE Result(FALSE, "response body")

\* The page calls tools.list or tools.call of the mirrored HTTP provider name
CallHttpTool(name, method, outcome) ==
    /\ name \in DOMAIN mcpServers
    /\ \E i \in DOMAIN features :
          /\ features[i].type = "http"
          /\ mcpServers[name].tools = httpTools(features[i].url)
    /\ returned' = [kind |-> "tool", name |-> name, method |-> method, outcome |-> outcome,
                    result |-> IF method = "list" THEN httpToolsList(outcome)
                               ELSE httpToolsCall(outcome)]
    /\ UNCHANGED << controllerVars, notes, bridgeVars, lastDeleted, isInitializing,
                    lastConfigHash, initializedServers, backup, sync, exposed, lastSynced >>

InitLoad ==
    /\ ready = FALSE
    /\ features = << >>
    /\ handlers = NoHandlers
    /\ config = Doc("ok", << Entry("alpha", LocalCfg), Entry("beta", HttpCfg) >>)
    /\ inflight = {}
    /\ issued = 0
    /\ budget = MaxLoadRequests
    /\ notes = 0
    /\ completed = Nothing
    /\ mcpServers = << >>
    /\ rebuilds = << >>
    /\ lastDeleted = NoVal
    /\ SyncInit

NextLoad ==
    \/ WhenReady
    \/ \E op \in inflight : \E k \in DOMAIN op.entries, e \in SettleErrors \cup {NoVal} :
          BulkSettle(op, k, e)
    \/ \E op \in inflight, e \in SettleErrors \cup {NoVal} : SpecificSettle(op, e)
    \/ EditConfig
    \/ GetServers
    \/ SyncConfig
    \/ SyncList
    \/ SyncInitializeClients
    \/ \E raises \in BOOLEAN : SyncUpdate(raises)
    \/ \E raises \in BOOLEAN : SyncRecover(raises)
    \/ ClientsUpdated
    \/ ListClients
    \/ UpdateMcpServersAPI
    \/ LoadWindow
    \/ \E n \in Names, m \in {"list", "call"}, o \in HttpOutcomes : CallHttpTool(n, m, o)

SpecLoad == InitLoad /\ [][NextLoad]_vars

\* SpecSync with the progress the event loops give: every invocation is
\* answered and every answer is received, and every race of a client
\* initialization with its 30 second timer (main.ts:720-730) is decided.
SpecSyncFair ==
    /\ SpecSync
    /\ WF_vars(SyncConfig)
    /\ WF_vars(SyncList)
    /\ WF_vars(SyncInitializeClients)
    /\ WF_vars(\E op \in inflight, e \in SettleErrors \cup {NoVal} : SpecificSettle(op, e))
    /\ WF_vars(\E raises \in BOOLEAN : SyncUpdate(raises))
    /\ WF_vars(\E raises \in BOOLEAN : SyncRecover(raises))

(***************************************************************************)
(* The controller serving add-provider with every config of ServerConfigs, *)
(* for the selection of the client variant.                                *)
(***************************************************************************)
\* Number of add requests issued in one run of SpecSelect.
MaxSelectRequests == 2

InitSelect ==
    /\ ready = FALSE
    /\ features = << >>
    /\ handlers = NoHandlers
    /\ config = Doc("ok", << >>)
    /\ inflight = {}
    /\ issued = 0
    /\ budget = MaxSelectRequests
    /\ notes = 0
    /\ completed = Nothing
    /\ mcpServers = << >>
    /\ rebuilds = << >>
    /\ lastDeleted = NoVal
    /\ SyncInit

NextSelect ==
    \/ WhenReady
    \/ \E n \in Names, c \in ServerConfigs : InitializeMcpServer(n, c)
    \/ \E op \in inflight : AddConnected(op)
    \/ \E op \in inflight, e \in SettleErrors : AddFailed(op, e)

SpecSelect == InitSelect /\ [][NextSelect]_vars

(***************************************************************************)
(* The controller serving add-provider, with the initializations that the  *)
(* timer of the race has overtaken kept in view: nothing cancels them.     *)
(***************************************************************************)
\* Number of add requests issued in one run of SpecTimer.
MaxTimerRequests == 2

\* main.ts:825-835, 880-885: the timer of main.ts:827-829 fires before
\* initializeClient settles.  The race rejects and the handler returns its
\* failure; the promise of initializeClient stays pending (kind "expired").
AddExpired(op) ==
    /\ op \in inflight /\ op.kind = "add"
    /\ inflight' = (inflight \ {op}) \cup { [op EXCEPT !.kind = "expired"] }
    /\ completed' = Outcome("add", op.entries[1].name, FALSE, FailedToInitialize(TimeoutError),
                            FALSE, FALSE, "none", NoReport)
    /\ UNCHANGED << ready, features, handlers, config, issued, notes >>
    /\ Controller

\* The handler with main.ts:837-857 as a continuation of initializeClient
\* rather than of the race: a client that connects after the timer has fired
\* is registered.
ExpiredSettlesRegisters(op, connected) ==
    LET f == op.entries[1] IN
    /\ op \in inflight /\ op.kind = "expired"
    /\ inflight' = inflight \ {op}
    /\ completed' = Nothing
    /\ handlers' = IF connected THEN registerIpcHandlers(handlers, f.name, f.cl) ELSE handlers
    /\ features' = IF connected
                   THEN pushFeature(features,
                                    addedFeature(f.name, initializeClient(f.cfg).variant, f.cfg))
                   ELSE features
    /\ UNCHANGED << ready, config, issued, notes >>
    /\ Controller

\* main.ts:832-835: initializeClient settles after the race is decided.
\* Promise.race has rejected already and the handler has returned from its
\* catch (main.ts:880-885); the value or error has no continuation.
ExpiredSettles(op, connected) ==
    /\ op \in inflight /\ op.kind = "expired"
    /\ inflight' = inflight \ {op}
    /\ completed' = Nothing
    /\ UNCHANGED << ready, features, handlers, config, issued, notes >>
    /\ Controller

InitTimer ==
    /\ ready = FALSE
    /\ features = << >>
    /\ handlers = NoHandlers
    /\ config = Doc("ok", << >>)
    /\ inflight = {}
    /\ issued = 0
    /\ budget = MaxTimerRequests
    /\ notes = 0
    /\ completed = Nothing
    /\ mcpServers = << >>
    /\ rebuilds = << >>
    /\ lastDeleted = NoVal
    /\ SyncInit

NextTimer ==
    \/ WhenReady
    \/ \E n \in Names, c \in AddConfigs : InitializeMcpServer(n, c)
    \/ \E op \in inflight : AddConnected(op)
    \/ \E op \in inflight : AddFailed(op, TransportError)
    \/ \E op \in inflight : AddExpired(op)
    \/ \E op \in inflight, connected \in BOOLEAN : ExpiredSettles(op, connected)

SpecTimer == InitTimer /\ [][NextTimer]_vars

\* The race of a request is decided: initializeClient settles or, after 30
\* seconds at the latest, the timer fires (main.ts:826-835).  A server that
\* never answers gives no fairness to the settling of initializeClient.
RaceDecided(id) ==
    \E op \in inflight :
        /\ op.id = id
        /\ AddConnected(op) \/ AddFailed(op, TransportError) \/ AddExpired(op)

SpecTimerFair ==
    SpecTimer /\ \A id \in 1..MaxTimerRequests : WF_vars(RaceDecided(id))

(***************************************************************************)
(* add-provider and delete-provider statement by statement, on a document  *)
(* that is readable and writable.  The statements of a handler between two *)
(* awaits run without any other step of the controller between them; the   *)
(* window is another process and receives what is sent to it at any time.  *)
(***************************************************************************)
\* Number of add and delete requests issued in one run of SpecOrder.
MaxOrderRequests == 3

\* No handler of the controller is between two of its statements
Idle == \A op \in inflight : op.kind = "add"

\* main.ts:837-857: the race was won; the handlers are registered and the
\* feature is pushed
AddPush(op) ==
    LET f == op.entries[1] IN
    /\ Idle
    /\ op \in inflight /\ op.kind = "add"
    /\ handlers' = registerIpcHandlers(handlers, f.name, f.cl)
    /\ features' = pushFeature(features, addedFeature(f.name, initializeClient(f.cfg).variant, f.cfg))
    /\ inflight' = (inflight \ {op}) \cup { [op EXCEPT !.kind = "add:pushed", !.mutated = TRUE] }
    /\ completed' = Nothing
    /\ UNCHANGED << ready, config, issued, notes >>
    /\ Controller

\* main.ts:861: 'clients-updated' is sent to every window
AddSend(op) ==
    /\ op \in inflight /\ op.kind = "add:pushed"
    /\ notes' = sendClientsUpdated(notes)
    /\ inflight' = (inflight \ {op}) \cup { [op EXCEPT !.kind = "add:sent"] }
    /\ completed' = Nothing
    /\ UNCHANGED << ready, features, handlers, config, issued >>
    /\ Controller

\* main.ts:864-879: the document is read, the entry set, the document
\* written, and the handler returns
AddSave(op) ==
    LET f == op.entries[1]
        p == persistAdded(config, f.name, f.cfg, TRUE)
    IN
    /\ op \in inflight /\ op.kind = "add:sent"
    /\ config' = p.doc
    /\ inflight' = inflight \ {op}
    /\ completed' = Outcome("add", f.name, TRUE, "initialized successfully",
                            TRUE, TRUE, p.persist, NoReport)
    /\ UNCHANGED << ready, features, handlers, issued, notes >>
    /\ Controller

\* main.ts:897-908: the request arrives; the feature of a registered name is
\* spliced out
DeleteSplice(serverName) ==
    /\ Idle
    /\ ready
    /\ issued < budget
    /\ issued' = issued + 1
    /\ IF notFound(features, serverName)
       THEN /\ completed' = Outcome("delete", serverName, FALSE, "Server not found",
                                    FALSE, FALSE, "none", NoReport)
            /\ UNCHANGED << features, handlers, inflight >>
       ELSE /\ features' = deleteFeature(features, serverName)
            /\ handlers' = unbindOnDelete(handlers, serverName)
            /\ inflight' = inflight \cup
                 { Op(issued + 1, "delete:spliced",
                      << Flow(serverName, EmptyCfg, NoClient, "fulfilled") >>, 1, TRUE) }
            /\ completed' = Nothing
    /\ UNCHANGED << ready, config, notes >>
    /\ Controller

\* main.ts:911-920: the entry is deleted from the document
DeleteSave(op) ==
    /\ op \in inflight /\ op.kind = "delete:spliced"
    /\ config' = persistDeleted(config, op.entries[1].name, TRUE).doc
    /\ inflight' = (inflight \ {op}) \cup { [op EXCEPT !.kind = "delete:saved"] }
    /\ completed' = Nothing
    /\ UNCHANGED << ready, features, handlers, issued, notes >>
    /\ Controller

\* main.ts:922-926: 'clients-updated' is sent and the handler returns
DeleteSend(op) ==
    /\ op \in inflight /\ op.kind = "delete:saved"
    /\ notes' = sendClientsUpdated(notes)
    /\ inflight' = inflight \ {op}
    /\ completed' = Outcome("delete", op.entries[1].name, TRUE, "deleted successfully",
                            TRUE, TRUE,
                            persistDeleted(config, op.entries[1].name, TRUE).persist, NoReport)
    /\ UNCHANGED << ready, features, handlers, config, issued >>
    /\ Controller

InitOrder ==
    /\ ready = FALSE
    /\ features = << >>
    /\ handlers = NoHandlers
    /\ config = Doc("ok", << >>)
    /\ inflight = {}
    /\ issued = 0
    /\ budget = MaxOrderRequests
    /\ notes = 0
    /\ completed = Nothing
    /\ mcpServers = << >>
    /\ rebuilds = << >>
    /\ lastDeleted = NoVal
    /\ SyncInit

NextOrder ==
    \/ WhenReady
    \/ \E n \in Names, c \in AddConfigs : Idle /\ InitializeMcpServer(n, c)
    \/ \E op \in inflight : AddPush(op)
    \/ \E op \in inflight : AddSend(op)
    \/ \E op \in inflight : AddSave(op)
    \/ \E op \in inflight : Idle /\ AddFailed(op, TransportError)
    \/ \E n \in Names : DeleteSplice(n)
    \/ \E op \in inflight : DeleteSave(op)
    \/ \E op \in inflight : DeleteSend(op)
    \/ ClientsUpdated
    \/ Idle /\ ListClients
    \/ UpdateMcpServersAPI

SpecOrder == InitOrder /\ [][NextOrder]_vars

(***************************************************************************)
(* ipcMain's table with the channels of the control interface, for         *)
(* providers of the names of IdNames.                                       *)
(***************************************************************************)
\* Number of providers registered in one run of SpecIds.
MaxIdRequests == 3

\* All channels of the table
IdChannels == ControlChannels \cup { EventNames[n][k] : n \in IdNames, k \in DOMAIN MethodSeq }

\* What the table holds for a channel of the control interface
ControlHandler == -2

\* The client of the provider of a name: its position in IdNameSeq
IdClient(n) == CHOOSE i \in DOMAIN IdNameSeq : IdNameSeq[i] = n

\* main.ts:759-934: app.whenReady binds the channels of the control interface
IdWhenReady ==
    /\ ~ready
    /\ ready' = TRUE
    /\ handlers' = [c \in IdChannels |-> IF c \in ControlChannels
                                        THEN ipcMainHandle(handlers, c, ControlHandler)[c]
                                        ELSE handlers[c]]
    /\ UNCHANGED << features, config, inflight, issued, budget, notes, completed, bridgeVars,
                    lastDeleted, syncVars >>

\* main.ts:615-665 with 685, 743 or 857: a client of a provider has connected;
\* registerIpcHandlers binds its identifiers and its feature is in the Registry
IdRegister(n) ==
    /\ ready
    /\ issued < budget
    /\ n \notin FeatureNames(features)
    /\ issued' = issued + 1
    /\ handlers' = registerIpcHandlers(handlers, n, IdClient(n))
    /\ features' = pushFeature(features, featureOf(n))
    /\ UNCHANGED << ready, config, inflight, budget, notes, completed, bridgeVars,
                    lastDeleted, syncVars >>

InitIds ==
    /\ ready = FALSE
    /\ features = << >>
    /\ handlers = [c \in IdChannels |-> NoClient]
    /\ config = Doc("ok", << >>)
    /\ inflight = {}
    /\ issued = 0
    /\ budget = MaxIdRequests
    /\ notes = 0
    /\ completed = Nothing
    /\ mcpServers = << >>
    /\ rebuilds = << >>
    /\ lastDeleted = NoVal
    /\ SyncInit

NextIds ==
    \/ IdWhenReady
    \/ \E n \in IdNames : IdRegister(n)

SpecIds == InitIds /\ [][NextIds]_vars

(***************************************************************************)
(* Properties                                                              *)
(***************************************************************************)
\* C1: in every reachable state the Registry holds at most one descriptor per
\* provider name.
C1_OneDescriptorPerName ==
    \A i, j \in DOMAIN features : features[i].name = features[j].name => i = j

\* C2: in every state reached when an operation has completed, an identifier
\* of a name has a bound handler if and only if the name has a descriptor in
\* the Registry.
C2_BoundIffRegistered ==
    completed # Nothing =>
        \A n \in Names : \A c \in ProviderIds(n) :
            c \in Bound(handlers) <=> n \in FeatureNames(features)

\* C3: add-provider for a name that has a descriptor in the Registry returns a
\* failure and changes nothing: the Registry, the bound identifiers and the
\* clients they forward to, the document, the clients under construction and
\* the notifications sent are as before.
C3_ExistingNameRejected ==
    [][\A n \in Names, c \in AddConfigs :
          (n \in FeatureNames(features) /\ InitializeMcpServer(n, c)) =>
              /\ completed' = Outcome("add", n, FALSE, "Server already exists",
                                      FALSE, FALSE, "none", NoReport)
              /\ features' = features
              /\ handlers' = handlers
              /\ config' = config
              /\ inflight' = inflight
              /\ notes' = notes]_vars

\* an add-provider for a registered name has just been rejected
C3_Witness ==
    /\ completed.kind = "add"
    /\ completed.message = "Server already exists"
    /\ completed.name \in FeatureNames(features)
    /\ ProviderIds(completed.name) \subseteq Bound(handlers)

\* C4: add-provider with a config that has neither command nor url fails: no
\* client is constructed, the Registry and the document are unchanged, and for
\* a name that is not registered the failure is a configuration error.  No
\* config without command and url passes initializeClient, whatever its type.
C4_NoCommandNoUrlFails ==
    [][/\ \A c \in ServerConfigs :
            c.command = NoVal /\ c.url = NoVal => initializeClient(c).variant = "error"
       /\ \A n \in Names, c \in AddConfigs :
            (c.command = NoVal /\ c.url = NoVal /\ InitializeMcpServer(n, c)) =>
                /\ completed'.kind = "add" /\ ~completed'.success
                /\ n \notin FeatureNames(features) =>
                       completed'.message \in { FailedToInitialize(e) : e \in ConfigErrors }
                /\ inflight' = inflight
                /\ features' = features
                /\ handlers' = handlers
                /\ config' = config
                /\ notes' = notes]_vars

\* add-provider with an empty config has just failed on a name that is not
\* registered
C4_Witness ==
    /\ completed.kind = "add"
    /\ completed.message = FailedToInitialize("must have a 'command' property")
    /\ completed.name \notin FeatureNames(features)

\* the step is the failure of the client initialization of an add-provider:
\* initializeClient rejects the config, or the race is lost to a transport
\* error or to the timer
C5_InitializationFails ==
    \/ \E n \in Names, c \in AddConfigs :
          /\ n \notin FeatureNames(features)
          /\ initializeClient(c).variant = "error"
          /\ InitializeMcpServer(n, c)
    \/ \E op \in inflight, e \in SettleErrors : AddFailed(op, e)

\* C5: when the client initialization of an add-provider fails (validation,
\* transport error, timeout), the Registry, the bound identifiers and the
\* document are as they were, no notification is sent and the result is
\* {success: false, message}; the request changed none of them before the
\* failure either.
C5_FailedAddChangesNothing ==
    [][/\ C5_InitializationFails =>
            /\ completed'.kind = "add" /\ ~completed'.success
            /\ \E e \in ConfigErrors \cup SettleErrors :
                  completed'.message = FailedToInitialize(e)
            /\ features' = features
            /\ handlers' = handlers
            /\ config' = config
            /\ notes' = notes
       /\ \A n \in Names, c \in AddConfigs :
            InitializeMcpServer(n, c) =>
                /\ features' = features
                /\ handlers' = handlers
                /\ config' = config
                /\ notes' = notes]_vars

\* an add-provider has just failed on the timer while the Registry holds a
\* provider
C5_Witness ==
    /\ completed.kind = "add"
    /\ completed.message = FailedToInitialize(TimeoutError)
    /\ features # << >>

\* C6: whenever add-provider returns success, the Registry holds a descriptor
\* of the name, all identifiers of the name are bound, and the document holds
\* an entry of the name equal to the config without its type.
C6_SuccessMeansPersisted ==
    (completed.kind = "add" /\ completed.success) =>
        /\ completed.name \in FeatureNames(features)
        /\ ProviderIds(completed.name) \subseteq Bound(handlers)
        /\ config.kind = "ok"
        /\ completed.name \in ConfiguredNames(config)
        /\ configOf(config, completed.name)
              = cleanServerConfig(features[Len(features)].config)

\* C7: once delete-provider(name) has succeeded (the write of the document,
\* where there was one, included) and every notification has been processed by
\* the Sync Bridge, the mirror has no entry of the name, the document has no
\* entry of the name and list-providers() excludes the name, for as long as no
\* later request changes the Registry or the document.
C7_DeletedIsGone ==
    (lastDeleted # NoVal /\ notes = 0 /\ rebuilds = << >>) =>
        /\ lastDeleted \notin DOMAIN mcpServers
        /\ lastDeleted \notin ConfiguredNames(config)
        /\ lastDeleted \notin FeatureNames(listClients)

\* C8: delete-provider for a name without a descriptor returns the failure
\* 'Server not found', the same at every call, and changes nothing: the
\* Registry, the bound identifiers, the document and the notifications sent are
\* as before, also when the document holds an entry of the name.
C8_AbsentNameNoOp ==
    [][\A n \in Names :
          (n \notin FeatureNames(features) /\ DeleteMcpServer(n)) =>
              /\ completed' = Outcome("delete", n, FALSE, "Server not found",
                                      FALSE, FALSE, "none", NoReport)
              /\ features' = features
              /\ handlers' = handlers
              /\ config' = config
              /\ inflight' = inflight
              /\ notes' = notes]_vars

\* a delete-provider has just been refused for a name that the document holds
\* and whose identifiers are still bound
C8_Witness ==
    /\ completed.kind = "delete"
    /\ completed.message = "Server not found"
    /\ completed.name \in ConfiguredNames(config)
    /\ ProviderIds(completed.name) \subseteq Bound(handlers)

\* the Registry, the bindings and the report after a bulk initialization whose
\* races ended as entries says
C9_Partition(entries) ==
    LET F == Rejected(entries)
        N == Len(entries)
    IN
    /\ completed'.report = [success |-> N - Cardinality(F), failed |-> Cardinality(F)]
    /\ Len(features') = N - Cardinality(F)
    /\ \A k \in DOMAIN entries :
          /\ k \in F <=> entries[k].name \notin FeatureNames(features')
          /\ k \notin F =>
                \A c \in ProviderIds(entries[k].name) : handlers'[c] = entries[k].cl

\* C9: when a bulk initialization over N configured providers completes with
\* the set F of them failed, the Registry holds exactly the N - |F| others,
\* each identifier of each of them is bound to the client initialized for it,
\* and the counts reported are N - |F| and |F|.
C9_BulkPartitions ==
    [][/\ \A op \in inflight : \A k \in DOMAIN op.entries, e \in SettleErrors \cup {NoVal} :
            (BulkSettle(op, k, e) /\ completed'.kind = "bulk") =>
                C9_Partition([op.entries EXCEPT
                                ![k].status = IF e = NoVal THEN "fulfilled" ELSE "rejected"])
       /\ ((WhenReady \/ InitializeAllMcpClients) /\ completed'.kind = "bulk") =>
                C9_Partition(startFlows(entriesToInit(config), 0))]_vars

\* a bulk initialization over two providers has just completed with one of
\* them failed, and the other is registered and bound
C9_Witness ==
    /\ completed.kind = "bulk"
    /\ completed.report = [success |-> 1, failed |-> 1]
    /\ Len(features) = 1
    /\ ProviderIds(features[1].name) \subseteq Bound(handlers)

\* C10: an operation that has changed the Registry sends 'clients-updated'
\* after the change, when it returns; an operation that was rejected changes
\* nothing and sends none.
C10_ChangeIsNotified ==
    [][completed' # Nothing =>
          /\ (completed'.mutated \/ features' # features) => notes' = notes + 1
          /\ completed'.message \in {"Server already exists", "Server not found"} =>
                features' = features /\ notes' = notes]_vars

\* C11: a call of getServers made while isInitializing is set returns the
\* mirror at once and does nothing else: no configuration is fetched and no
\* initialization requested (the flow in flight and the requests of the
\* controller are as before), the mirror, lastConfigHash and
\* initializedServers are unchanged, and the flag stays set.
C11_BusySyncIsNoOp ==
    [][(isInitializing /\ GetServers) =>
          /\ returned' = Returned("busy", mcpServers)
          /\ isInitializing'
          /\ sync' = sync
          /\ mcpServers' = mcpServers
          /\ lastConfigHash' = lastConfigHash
          /\ initializedServers' = initializedServers
          /\ backup' = backup
          /\ inflight' = inflight
          /\ features' = features
          /\ issued' = issued]_vars

\* getServers has just returned from a call made while a flow was waiting for
\* its initialization request
C11_Witness ==
    /\ returned.kind = "getServers" /\ returned.how = "busy"
    /\ isInitializing
    /\ sync.pc = "wait"

\* C12: every flow of getServers that sets isInitializing clears it again, on
\* every path: unchanged hash, incremental sync, a failed initialization
\* request and a failed recovery rebuild.
C12_SyncReturnsToIdle == isInitializing ~> ~isInitializing

\* a flow has ended with the failure of its recovery rebuild, and the flag is
\* clear
C12_Witness ==
    /\ returned.kind = "getServers" /\ returned.how = "failed"
    /\ backup.stored
    /\ ~isInitializing
    /\ sync = NoSync

\* C13: at most one flow that reads the Registry and writes the mirror is
\* between its start and its end at any time: a flow of getServers
\* (isInitializing set) or a full rebuild started by 'clients-updated'.
C13_OneResyncFlow ==
    Len(rebuilds) + (IF isInitializing THEN 1 ELSE 0) <= 1

\* C14: when a call of getServers has returned from its try block and the
\* next flow reads the same configuration, that flow finds the hash it kept,
\* returns the mirror as it is and requests no initialization: the Registry,
\* the handlers and the requests in flight are as before.
C14_SecondSyncDoesNothing ==
    [][/\ (/\ SyncConfig
           /\ lastSynced.defined
           /\ getMcpConfig(config).defined
           /\ getMcpConfig(config).servers = lastSynced.servers) =>
              /\ sync'.pc = "list"
              /\ sync'.hash = lastConfigHash
              /\ mcpServers' = mcpServers /\ inflight' = inflight /\ features' = features
       /\ (/\ SyncList
           /\ lastSynced.defined
           /\ sync.servers = lastSynced.servers) =>
              /\ returned' = Returned("unchanged", mcpServers)
              /\ sync' = NoSync
              /\ mcpServers' = mcpServers
              /\ inflight' = inflight
              /\ features' = features
              /\ handlers' = handlers
              /\ backup' = backup]_vars

\* a second call has just returned the mirror of two providers without
\* requesting anything
C14_Witness ==
    /\ returned.kind = "getServers" /\ returned.how = "unchanged"
    /\ lastSynced.defined
    /\ lastSynced.servers = getMcpConfig(config).servers
    /\ DOMAIN mcpServers = {"alpha", "beta"}
    /\ issued = 2

\* n is registered as an HTTP provider of the url the document holds for it
\* (the url is the whole of an HTTP config), and is mirrored
C15_Unchanged(n) ==
    /\ n \in DOMAIN mcpServers
    /\ n \in ConfiguredNames(config)
    /\ configOf(config, n).command = NoVal
    /\ \E i \in DOMAIN features :
          /\ features[i].name = n
          /\ features[i].type = "http"
          /\ features[i].url = configOf(config, n).url

\* a step of the work getServers triggers: the changed set is computed, the
\* request initialize-mcp-clients is served, the mirror is updated
C15_SyncWork ==
    \/ SyncList
    \/ SyncInitializeClients
    \/ \E op \in inflight, e \in SettleErrors \cup {NoVal} :
          op.id = sync.id /\ SpecificSettle(op, e)
    \/ \E raises \in BOOLEAN : SyncUpdate(raises)

\* C15: the work getServers triggers for the changed providers does not touch
\* a registered and mirrored provider whose configuration has not changed: it
\* is not in the changed set, no client is constructed for it, and its
\* descriptor, its bound handlers and its mirrored entry stay as they are.
C15_UnchangedProviderUntouched ==
    [][\A n \in Names :
          (C15_Unchanged(n) /\ C15_SyncWork) =>
              /\ \A k \in DOMAIN sync'.changed : sync'.changed[k] # n
              /\ \A op \in inflight' : \A k \in DOMAIN op.entries : op.entries[k].name # n
              /\ SelectSeq(features', LAMBDA f : f.name = n)
                    = SelectSeq(features, LAMBDA f : f.name = n)
              /\ \A c \in ProviderIds(n) : handlers'[c] = handlers[c]
              /\ n \in DOMAIN mcpServers' /\ mcpServers'[n] = mcpServers[n]]_vars

\* C16: when a flow of getServers reads a changed configuration that holds no
\* provider while n is registered and mirrored, the flow removes n from the
\* mirror and returns, and list-clients no longer returns n.
C16_DeletedFromConfigIsGone ==
    [][\A n \in Names :
          (/\ SyncList
           /\ sync.servers = << >>
           /\ sync.hash # lastConfigHash
           /\ n \in FeatureNames(features)
           /\ n \in DOMAIN mcpServers) =>
              /\ n \in deletedServers(sync.servers, listClients)
              /\ n \notin DOMAIN mcpServers'
              /\ returned'.kind = "getServers"
              /\ n \notin FeatureNames(listClients')]_vars

\* C17: when a full rebuild completes, the keys of the mirror are exactly the
\* names of the clients the rebuild read from the Registry; the tools.list and
\* tools.call of each local client invoke "<name>-tools/list" and
\* "<name>-tools/call", and those of each HTTP client are calls of its URL.
C17_FullRebuildMirrorsRegistry ==
    [][(/\ UpdateMcpServersAPI
        /\ rebuilds[1].fullRebuild) =>
           LET clients == rebuilds[1].clients IN
           /\ DOMAIN mcpServers' = FeatureNames(clients)
           /\ \A k \in DOMAIN clients :
                 LET name == clients[k].name IN
                 IF clients[k].type = "http"
                 THEN mcpServers'[name].tools =
                         [list |-> "POST " \o clients[k].url \o "/tools/list",
                          call |-> "POST " \o clients[k].url \o "/tools/call"]
                 ELSE mcpServers'[name].tools =
                         [list |-> "invoke " \o name \o "-tools/list",
                          call |-> "invoke " \o name \o "-tools/call"]]_vars

\* C18: in every state, the entries of an HTTP provider in the mirror of the
\* preload script and in the object exposed at load have no prompts and no
\* resources.
C18_HttpEntryHasToolsOnly ==
    \A k \in DOMAIN features :
        features[k].type = "http" =>
            /\ features[k].name \in DOMAIN mcpServers =>
                  /\ mcpServers[features[k].name].prompts = Absent
                  /\ mcpServers[features[k].name].resources = Absent
            /\ features[k].name \in DOMAIN exposed.api =>
                  /\ exposed.api[features[k].name].prompts = Absent
                  /\ exposed.api[features[k].name].resources = Absent

\* C19: a tools.list of a mirrored HTTP provider whose request fails (host
\* unreachable, or body not decodable) returns {tools: []} and does not throw;
\* a tools.call whose request fails throws the error.
C19_HttpListDegrades ==
    [][\A n \in Names, o \in {"unreachable", "undecodable"} :
          /\ CallHttpTool(n, "list", o) =>
                returned'.result = Result(FALSE, [tools |-> << >>])
          /\ CallHttpTool(n, "call", o) =>
                returned'.result = Result(TRUE, httpError(o))]_vars

\* tools.list of beta has just returned the empty result for an unreachable
\* host
C19_Witness ==
    /\ returned.kind = "tool" /\ returned.name = "beta" /\ returned.method = "list"
    /\ returned.outcome = "unreachable"
    /\ ~returned.result.threw
    /\ "beta" \in DOMAIN mcpServers

\* a step of the handler of add-provider or of delete-provider
C20_AddOrDeleteStep ==
    \/ \E n \in Names, c \in AddConfigs : InitializeMcpServer(n, c)
    \/ \E op \in inflight : AddConnected(op)
    \/ \E op \in inflight, e \in SettleErrors : AddFailed(op, e)
    \/ \E n \in Names : DeleteMcpServer(n)

\* C20: every step of add-provider and of delete-provider either suspends at
\* the client initialization or returns {success, message} to the caller: no
\* input, failure of the initialization or failure of the document (unreadable,
\* unwritable, without mcpServers) rejects the invocation.
C20_StructuredResult ==
    [][C20_AddOrDeleteStep =>
          \/ completed' = Nothing /\ inflight' # {}
          \/ /\ completed'.kind \in {"add", "delete"}
             /\ completed'.success \in BOOLEAN
             /\ completed'.message # NoVal]_vars

\* delete-provider has just caught the TypeError of a document without
\* mcpServers and returned a failure
C20_Witness ==
    /\ completed.kind = "delete"
    /\ ~completed.success
    /\ completed.message = "Failed to delete server: Cannot read properties of undefined"
    /\ config.kind = "nomcp"

\* a step of a flow of getServers after its call
C21_FlowStep ==
    \/ SyncConfig
    \/ SyncList
    \/ SyncInitializeClients
    \/ \E raises \in BOOLEAN : SyncUpdate(raises)
    \/ \E raises \in BOOLEAN : SyncRecover(raises)

\* C21: every call of getServers completes and returns the mirror, whatever
\* step raises: a step of the flow either leaves the flow suspended at its
\* next await or ends it returning window.mcpServers, a raise of the request
\* or of the incremental rebuild goes to the catch block, a raise of the
\* recovery rebuild ends the flow with the mirror, and every flow ends.
C21_SyncAlwaysReturnsMirror ==
    /\ [][/\ C21_FlowStep =>
               \/ sync' # NoSync /\ returned' = NotReturned
               \/ /\ sync' = NoSync
                  /\ returned'.kind = "getServers"
                  /\ returned'.mirror = mcpServers'
          /\ (isInitializing /\ GetServers) => returned' = Returned("busy", mcpServers')
          /\ SyncUpdate(TRUE) =>
               \/ sync'.pc = "recover"
               \/ returned' = Returned("failed", mcpServers')
          /\ SyncRecover(TRUE) => returned' = Returned("failed", mcpServers')]_vars
    /\ (sync # NoSync) ~>
          (sync = NoSync /\ returned.kind = "getServers" /\ returned.mirror = mcpServers)

\* a flow has just returned the mirror after its recovery rebuild raised
C21_Witness ==
    /\ returned = Returned("failed", mcpServers)
    /\ backup.stored
    /\ sync = NoSync
    /\ features # << >>

\* C22: the client constructed for a config is of the kind the config's type
\* field names when it has one (local: the subprocess client, http: the HTTP
\* client, whatever the other fields), and when it has none the HTTP client
\* if the config has a url and the subprocess client otherwise: the provider
\* that add-provider registers for a config is of that kind.
C22_SelectionFollowsType ==
    [][\A op \in inflight :
          AddConnected(op) =>
              LET c == op.entries[1].cfg
                  f == features'[Len(features')]
              IN /\ c.type = "local" => f.type = "local"
                 /\ c.type = "http" => f.type = "http"
                 /\ c.type = NoVal => f.type = IF c.url # NoVal THEN "http" ELSE "local"]_vars

\* the entry of n in the document was written while op was in flight: op read
\* no entry of n, or another one
C23_WrittenSince(op, n) ==
    /\ n \in ConfiguredNames(config)
    /\ \A j \in DOMAIN op.entries :
          op.entries[j].name = n => op.entries[j].cfg # configOf(config, n)

\* C23: requests do not interleave on the Registry, so a provider that an
\* add-provider registered and persisted while a bulk initialization was in
\* flight is still registered when the bulk initialization completes.
C23_CompletedAddSurvivesBulk ==
    [][\A op \in inflight : \A k \in DOMAIN op.entries, e \in SettleErrors \cup {NoVal} :
          BulkSettle(op, k, e) =>
              \A n \in Names :
                  (n \in FeatureNames(features) /\ C23_WrittenSince(op, n)) =>
                      n \in FeatureNames(features')]_vars

\* C24: in every state without a request in flight, each registered name has
\* exactly one live client and each unregistered name has none.
C24_OneLiveClientPerName ==
    inflight = {} =>
        \A n \in Names :
            Cardinality(liveClients(handlers, n)) =
                IF n \in FeatureNames(features) THEN 1 ELSE 0

\* the config cfg of the document is value-equal to the config the Registry
\* last knew for the descriptor f: the config an add-provider stored in it
\* (main.ts:846-855), or the url of an HTTP descriptor
C25_ValueEqual(f, cfg) ==
    \/ f.config # Absent /\ cleanServerConfig(f.config) = cfg
    \/ /\ f.config = Absent
       /\ f.type = "http"
       /\ cfg = [type |-> NoVal, command |-> NoVal, url |-> f.url]

\* C25: when a flow of getServers finds the hash changed, every configured
\* name that is not registered is in its changed set, and no registered name
\* whose config is value-equal to the one the Registry last knew is.
C25_ChangedSetIsExact ==
    [][(SyncList /\ sync.hash # lastConfigHash) =>
          LET changed == changedServers(sync.servers, 1, listClients) IN
          \A k \in DOMAIN sync.servers :
              LET n == sync.servers[k].name
                  isIn == \E j \in DOMAIN changed : changed[j] = n
              IN /\ n \notin FeatureNames(listClients) => isIn
                 /\ (\E i \in DOMAIN listClients :
                        /\ listClients[i].name = n
                        /\ C25_ValueEqual(listClients[i], sync.servers[k].cfg)) => ~isIn]_vars

\* C26: when the incremental step of a flow with a changed set completes and
\* list-clients returned one descriptor per name, the mirrored entry of every changed name that is registered is the one built
\* from the descriptor list-clients returned, also when the name was mirrored
\* before, and the entries of the other mirrored names are as they were.
C26_ChangedEntriesRebuilt ==
    [][(/\ SyncUpdate(FALSE)
        /\ \A i, j \in DOMAIN listClients :
              listClients[i].name = listClients[j].name => i = j) =>
          \A n \in Names :
              LET isChangedName == \E j \in DOMAIN sync.changed : sync.changed[j] = n IN
              /\ (isChangedName /\ n \in FeatureNames(listClients)) =>
                    /\ n \in DOMAIN mcpServers'
                    /\ mcpServers'[n] = rebuiltMirror(<< >>, listClients, TRUE)[n]
              /\ (~isChangedName /\ n \in DOMAIN mcpServers) =>
                    /\ n \in DOMAIN mcpServers'
                    /\ mcpServers'[n] = mcpServers[n]]_vars

\* The names of the servers of the recovery snapshot
C27_SnapshotNames == { backup.servers[i].name : i \in DOMAIN backup.servers }

\* A step of the flow, after the configuration has been fetched, raises
C27_Raises ==
    \/ SyncConfig /\ ~getMcpConfig(config).defined
    \/ SyncUpdate(TRUE)

\* C27: when a step of the synchronization flow after the configuration fetch
\* raises and there is a recovery snapshot, a full rebuild of the mirror is attempted next; a rebuild that
\* completes leaves the mirror with an entry for exactly the servers of the
\* most recent recovery snapshot; a rebuild that fails ends the flow, leaving
\* the mirror as it was.
C27_RecoveryRebuildsFromSnapshot ==
    [][/\ (C27_Raises /\ backup.stored) => sync'.pc = "recover"
       /\ SyncRecover(FALSE) => DOMAIN mcpServers' = C27_SnapshotNames
       /\ SyncRecover(TRUE) => sync' = NoSync /\ mcpServers' = mcpServers]_vars

\* C28: a step of a synchronization flow whose hash differs from the
\* last-observed hash sets the last-observed hash to the hash of the flow
\* when it completes the flow without exception, with or without changed
\* servers, and every other step of the flow, a raise and the recovery
\* included, leaves the last-observed hash as it was; a flow whose hash is the
\* last-observed one does no work, and the last-observed hash is always that
\* of the configuration of the last flow that completed without exception.
C28_HashAdvancesOnSuccessOnly ==
    [][/\ C21_FlowStep =>
             IF sync' = NoSync /\ returned'.how = "synced"
             THEN lastConfigHash' = sync.hash
             ELSE lastConfigHash' = lastConfigHash
       /\ (SyncList /\ changedServers(sync.servers, 1, listClients) = << >>) =>
             (sync' = NoSync /\ lastConfigHash' = sync.hash)
       /\ (SyncList /\ sync.hash = lastConfigHash) =>
             (returned' = Returned("unchanged", mcpServers) /\ UNCHANGED << mcpServers, features >>)
       /\ (C21_FlowStep /\ lastConfigHash' # NoHash) =>
             /\ lastSynced'.defined
             /\ lastConfigHash' = calculateConfigHash(stringifyConfig(lastSynced'.servers))]_vars

\* A flow that found a hash other than the last-observed one and no changed
\* server has completed: the hash of its configuration is the last-observed one
C28_Witness ==
    /\ sync = NoSync
    /\ returned.kind = "getServers" /\ returned.how = "synced"
    /\ ~backup.stored
    /\ lastSynced.defined /\ lastSynced.servers = << >>
    /\ lastConfigHash = calculateConfigHash(stringifyConfig(<< >>))
    /\ lastConfigHash # NoHash

\* Request id waits for its race
C29_Waiting(id) == \E op \in inflight : op.id = id /\ op.kind = "add"

C30_Registers(n, cl) ==
    \E op \in inflight :
        \/ AddConnected(op) /\ op.entries[1].name = n /\ op.entries[1].cl = cl
        \/ /\ op.kind = "specific" /\ op.i \in DOMAIN op.entries
           /\ SpecificSettle(op, NoVal) /\ op.entries[op.i].name = n /\ op.entries[op.i].cl = cl
        \/ /\ op.kind = "bulk"
           /\ \E k \in DOMAIN op.entries, e \in SettleErrors \cup {NoVal} :
                 /\ BulkSettle(op, k, e) /\ \A o \in inflight' : o.id # op.id
                 /\ \E j \in DOMAIN op.entries :
                       /\ op.entries[j].name = n /\ op.entries[j].cl = cl
                       /\ op.entries[j].status = "fulfilled" \/ (j = k /\ e = NoVal)

\* C30: in every state, each of the seven identifiers "<name>-<type>/<action>"
\* of every registered name is bound, all seven to one client, which is not
\* the client of an identifier of another name, and the handler of the
\* identifier forwards the method "<type>/<action>" with the params it is
\* given to that client; a step that registers a client for a name leaves the
\* seven identifiers of the name bound to that client, which none of them was
\* bound to before, and no other step changes what an identifier is bound to, so that the
\* client is the one of the latest registration of the name.
C30_HandlersForwardToRegisteredClient ==
    /\ [](\A n \in FeatureNames(features) :
            /\ ProviderIds(n) \subseteq Bound(handlers)
            /\ Cardinality(liveClients(handlers, n)) = 1
            /\ \A m \in Names \ {n} : liveClients(handlers, m) \cap liveClients(handlers, n) = {}
            /\ \A k \in DOMAIN MethodSeq, p \in RequestParams :
                  /\ EventNames[n][k] = n \o "-" \o MethodSeq[k]
                  /\ handlerOf(handlers, n, k, p).client \in liveClients(handlers, n)
                  /\ handlerOf(handlers, n, k, p).request = [method |-> MethodSeq[k], params |-> p])
    /\ [][\A n \in Names :
            /\ \A cl \in 1..(ClientId(MaxRequests, Cardinality(Names))) :
                  C30_Registers(n, cl) =>
                      /\ liveClients(handlers', n) = {cl}
                      /\ cl \notin liveClients(handlers, n)
            /\ liveClients(handlers', n) # liveClients(handlers, n) =>
                  \E cl \in liveClients(handlers', n) : C30_Registers(n, cl)]_vars

\* A targeted initialization, the second request of the run, has registered a
\* client for a name: the seven identifiers of the name forward to that client
C30_Witness ==
    /\ completed.kind = "specific"
    /\ \E n \in FeatureNames(features) :
          /\ Cardinality(liveClients(handlers, n)) = 1
          /\ \A cl \in liveClients(handlers, n) : cl > ClientId(1, Cardinality(Names))
          /\ ProviderIds(n) \subseteq Bound(handlers)

\* C31: in every state no identifier is one on which a registration has
\* failed because a handler was bound already; and a step that registers a
\* client for a name whose identifiers are bound leaves each of the seven
\* identifiers of the name forwarding to the new client alone.
C31_RebindReplacesHandler ==
    /\ [](\A c \in Channels : handlers[c] # DuplicateRegistration)
    /\ [][\A n \in Names, cl \in 1..(ClientId(MaxRequests, Cardinality(Names))) :
            (C30_Registers(n, cl) /\ ProviderIds(n) \cap Bound(handlers) # {}) =>
                \A c \in ProviderIds(n) : handlers'[c] = cl /\ handlers[c] # cl]_vars

\* alpha, registered at startup and deleted by the first request, has been
\* added again by the second (the document lists it after beta): its
\* identifiers forward to the client of the second request
C31_Witness ==
    /\ completed.kind = "add" /\ completed.success /\ completed.name = "alpha"
    /\ config.kind = "ok" /\ Len(config.mcpServers) = 2
    /\ config.mcpServers[1].name = "beta" /\ config.mcpServers[2].name = "alpha"
    /\ \A c \in ProviderIds("alpha") : handlers[c] = ClientId(2, 1)
    /\ \A c \in ProviderIds("beta") : handlers[c] = ClientId(0, 2)

\* C32: when add-provider sends its notification the document holds the
\* entry of the added name, with the config that is persisted for it, and
\* when delete-provider sends its notification the document holds no entry of
\* the deleted name: the Registry is updated first, the document written
\* second and the notification sent last.
C32_PersistedBeforeNotified ==
    [][\A op \in inflight :
          /\ AddSend(op) =>
                /\ op.entries[1].name \in FeatureNames(features)
                /\ op.entries[1].name \in ConfiguredNames(config)
                /\ configOf(config, op.entries[1].name) = cleanServerConfig(op.entries[1].cfg)
          /\ DeleteSend(op) =>
                /\ op.entries[1].name \notin ConfiguredNames(config)]_vars

\* The descriptors of name n in the Registry, in their order
C33_DescriptorsOf(feats, n) == SelectSeq(feats, LAMBDA f : f.name = n)

\* The names of the list
C33_Listed(l) == { l[i] : i \in DOMAIN l }

C34_LocalEntryFollowsCapabilities ==
    \A k \in DOMAIN features :
        (features[k].type = "local" /\ features[k].name \in DOMAIN mcpServers) =>
            /\ mcpServers[features[k].name].prompts # Absent =>
                  "prompts" \in getServerCapabilities[features[k].name]
            /\ mcpServers[features[k].name].resources # Absent =>
                  "resources" \in getServerCapabilities[features[k].name]

\* C35: when add-provider has registered a provider and written its entry,
\* the entry is the config without its type, initializeClient accepts the
\* entry, and the client variant it selects for the entry is the variant of
\* the client that was registered.
C35_StripAndInferRoundTrip ==
    [][\A op \in inflight :
          (AddConnected(op) /\ completed'.persist = "saved") =>
              LET f == op.entries[1]
                  entry == configOf(config', f.name)
              IN /\ entry = [f.cfg EXCEPT !.type = NoVal]
                 /\ initializeClient(entry).variant # "error"
                 /\ initializeClient(entry).variant = initializeClient(f.cfg).variant
                 /\ initializeClient(entry).variant = features'[Len(features')].type]_vars

\* A provider added with a type marker is registered and persisted without it
C35_Witness ==
    /\ completed.kind = "add" /\ completed.success /\ completed.persist = "saved"
    /\ \E k \in DOMAIN features :
          /\ features[k].name = completed.name
          /\ features[k].config # Absent
          /\ features[k].config.type = "sse"
          /\ features[k].type = "http"
          /\ completed.name \in ConfiguredNames(config)
          /\ configOf(config, completed.name).type = NoVal

\* C36: when the race of a name of a targeted initialization settles, and the
\* name does not come again later in the list, the Registry holds one
\* descriptor of the name if initializeClient won the race and none if it
\* lost; and the step leaves alone the descriptors of the names that are not
\* in the list and of the names of the list that were settled before and do
\* not come again.  So when the request completes, each of its names is
\* registered, once, if and only if its initialization succeeded, and no
\* other name has been touched.
C36_TargetedInitFrame ==
    [][\A op \in inflight, e \in SettleErrors \cup {NoVal} :
          (op.kind = "specific" /\ op.i \in DOMAIN op.entries /\ SpecificSettle(op, e)) =>
              LET n == op.entries[op.i].name
                  ahead == { op.entries[j].name : j \in { j \in DOMAIN op.entries : j > op.i } }
                  touched == ahead \cup {n}
              IN /\ n \notin ahead =>
                       Len(C33_DescriptorsOf(features', n)) = IF e = NoVal THEN 1 ELSE 0
                 /\ \A m \in Names \ touched :
                       C33_DescriptorsOf(features', m) = C33_DescriptorsOf(features, m)]_vars

\* C37: two different pairs of a name and a method of the table have
\* different identifiers, and no identifier of a provider is a channel of the
\* control interface; in every state each channel of the control interface
\* has the handler it got at startup and each identifier of a registered
\* name forwards to the client of that name.
C37_IdentifiersAreInjective ==
    /\ \A n1, n2 \in IdNames : \A k1, k2 \in DOMAIN MethodSeq :
          eventName(n1, MethodSeq[k1]) = eventName(n2, MethodSeq[k2]) => (n1 = n2 /\ k1 = k2)
    /\ \A n \in IdNames : \A k \in DOMAIN MethodSeq :
          eventName(n, MethodSeq[k]) \notin ControlChannels
    /\ ready => \A c \in ControlChannels : handlers[c] = ControlHandler
    /\ \A n \in FeatureNames(features) : \A k \in DOMAIN MethodSeq :
          handlers[eventName(n, MethodSeq[k])] = IdClient(n)

\* Three providers are registered whose names extend one another by a
\* separator and a part of a method
C37_Witness ==
    /\ FeatureNames(features) = { "alpha", "alpha-tools", "alpha-tools/list" }
    /\ \A k \in DOMAIN MethodSeq : handlers["alpha-tools-" \o MethodSeq[k]] = IdClient("alpha-tools")
    /\ handlers["list-clients"] = ControlHandler

\* C38: an update of the mirror that is not a full rebuild keeps every
\* mirrored entry as it is, whatever the Registry holds: each name mirrored
\* before is mirrored after with the same entry, both for the update that
\* getServers runs and for the update computed from the mirror and the
\* Registry of any state.
C38_IncrementalUpdateOnlyAdds ==
    /\ [](\A n \in DOMAIN mcpServers :
             /\ n \in DOMAIN rebuiltMirror(mcpServers, listClients, FALSE)
             /\ rebuiltMirror(mcpServers, listClients, FALSE)[n] = mcpServers[n])
    /\ [][SyncUpdate(FALSE) =>
            \A n \in DOMAIN mcpServers :
                /\ n \in DOMAIN mcpServers'
                /\ mcpServers'[n] = mcpServers[n]]_vars

\* getServers has returned a mirror in which alpha has the entry of a local
\* provider although the Registry lists alpha as an HTTP provider, and in
\* which beta has been added
C38_Witness ==
    /\ returned = Returned("synced", mcpServers)
    /\ DOMAIN mcpServers = { "alpha", "beta" }
    /\ \E i \in DOMAIN listClients :
          /\ listClients[i].name = "alpha"
          /\ listClients[i].type = "http"
    /\ mcpServers["alpha"] # rebuiltMirror(<< >>, listClients, TRUE)["alpha"]
    /\ mcpServers["beta"] = rebuiltMirror(<< >>, listClients, TRUE)["beta"]

\* C39: in every state where no operation of the Registry and no flow of the
\* Sync Bridge is in flight and every notification has been processed, the
\* names mirrored are the names registered.
C39_MirrorConvergesToRegistry ==
    (/\ inflight = {}
     /\ sync = NoSync
     /\ rebuilds = << >>
     /\ notes = 0) => DOMAIN mcpServers = FeatureNames(features)
====
